---- MODULE Spec2Model ----
(***************************************************************************)
(* A model of the zflag FlagSet: the flag registry (flag.go AddFlag, Var,  *)
(* Set), the Value implementations the parser drives (bool, int, count,    *)
(* string) and the argument parser (flag.go parseAll, parseArgs,           *)
(* parseLongArg, parseShortArg, parseSingleShortArg,                       *)
(* stripUnknownFlagValue).                                                 *)
(*                                                                         *)
(* A Go string is modelled as a sequence of one-character strings, so that *)
(* the parser's indexing, slicing and splitting are computed as the code   *)
(* computes them: "--num=5" is <<"-","-","n","u","m","=","5">>.  Only      *)
(* one-byte characters occur, so byte length and rune count coincide.      *)
(***************************************************************************)
EXTENDS Integers, Sequences, FiniteSets, TLC

VARIABLES
    f,          \* the FlagSet: its fields, under the names of flag.go
    heap,       \* the Flag objects the FlagSet's maps and lists point to
    arguments,  \* the argument vector handed to Parse
    pc,         \* where Parse stands: "idle", "scan", "short", "ret", "done"
    rest,       \* parseArgs' local args: the tokens not yet taken
    shorthands, \* parseShortArg's local: the undecoded rest of the cluster
    err,        \* the error parseArgs holds, and Parse returns
    outcome,    \* how Parse ended: "none", "returned", "exit0", "exit2", "panic"
    log,        \* history: one record per parser step, in order
    argPos,     \* history: for each element of f.args, its index in arguments
    api,        \* history: the last call of the API other than Parse, with
                \* what it returned; the flags in the order they were
                \* registered, and in the order of their first successful Set
    donor       \* another FlagSet of the program, handed to AddFlagSet

vars == <<f, heap, arguments, pc, rest, shorthands, err, outcome, log, argPos, api,
          donor>>

----------------------------------------------------------------------------
(* Bounds *)

\* Longest argument vector handed to Parse.
MaxArgs == 3

\* Most calls that register, rename or set flags in one behaviour, the
\* calls of Parse apart.
MaxCalls == 3

----------------------------------------------------------------------------
(* Go strings and slices *)

\* s[k:] of Go (k counted from 0).
From(s, k) == SubSeq(s, k + 1, Len(s))

Range(s) == {s[i] : i \in 1..Len(s)}

\* strings.Index(s, "="), counted from 1; 0 when there is none.
IndexEq(s) ==
    IF \E i \in 1..Len(s) : s[i] = "="
    THEN CHOOSE i \in 1..Len(s) : s[i] = "=" /\ \A j \in 1..(i - 1) : s[j] # "="
    ELSE 0

\* strings.SplitN(s, "=", 2): one part without "=", else the text before the
\* first "=" and the text after it.
SplitN2(s) ==
    IF IndexEq(s) = 0 THEN <<s>>
    ELSE <<SubSeq(s, 1, IndexEq(s) - 1), From(s, IndexEq(s))>>

\* All sequences over S of length at most n.
SeqsUpTo(S, n) == UNION {[1..k -> S] : k \in 0..n}

----------------------------------------------------------------------------
(* Errors *)

ErrNil == "nil"
ErrHelp == "zflag: help requested"
ErrUnknownFlag == "unknown flag"
ErrUnknownShorthand == "unknown shorthand flag"
ErrNeedsArgument == "flag needs an argument"
ErrBadSyntax == "bad flag syntax"
ErrInvalidArgument == "invalid argument"

----------------------------------------------------------------------------
(* Values: strconv and the Value implementations *)

\* The texts strconv.ParseBool accepts.
BoolTrueTexts == {<<"1">>, <<"t">>, <<"T">>, <<"T","R","U","E">>,
                  <<"t","r","u","e">>, <<"T","r","u","e">>}
BoolFalseTexts == {<<"0">>, <<"f">>, <<"F">>, <<"F","A","L","S","E">>,
                   <<"f","a","l","s","e">>, <<"F","a","l","s","e">>}

\* strconv.ParseBool: the value, and whether the text was accepted; a
\* rejected text yields false.
ParseBool(s) ==
    IF s \in BoolTrueTexts THEN [v |-> TRUE, ok |-> TRUE]
    ELSE IF s \in BoolFalseTexts THEN [v |-> FALSE, ok |-> TRUE]
    ELSE [v |-> FALSE, ok |-> FALSE]

DigitChars == <<"0", "1", "2", "3", "4", "5", "6", "7", "8", "9",
                "a", "b", "c", "d", "e", "f">>

IsDigit(c, base) == \E d \in 1..base : DigitChars[d] = c

DigitVal(c) == (CHOOSE d \in 1..Len(DigitChars) : DigitChars[d] = c) - 1

RECURSIVE Digits(_, _, _)
\* The number the digits of s denote in the base, after the digits of acc.
Digits(s, base, acc) ==
    IF s = <<>> THEN acc
    ELSE Digits(Tail(s), base, acc * base + DigitVal(Head(s)))

\* The base strconv.ParseUint(u, 0, 64) reads u in: 16, 2 or 8 after the
\* prefix 0x, 0b or 0o, 8 after a leading 0, else 10.
BaseOf(u) ==
    IF Len(u) < 2 THEN 10
    ELSE IF u[1] # "0" THEN 10
    ELSE IF u[2] \in {"x", "X"} THEN 16
    ELSE IF u[2] \in {"b", "B"} THEN 2
    ELSE 8

\* The digits of u, after its base prefix.
BodyOf(u) ==
    IF Len(u) < 2 THEN u
    ELSE IF u[1] # "0" THEN u
    ELSE IF u[2] \in {"x", "X", "b", "B", "o", "O"} THEN From(u, 2)
    ELSE From(u, 1)

\* The number the digits body denote in the base; no digit, or a character
\* that is no digit of the base, is a syntax error.
Number(body, base) ==
    IF body # <<>> /\ \A i \in 1..Len(body) : IsDigit(body[i], base)
    THEN [v |-> Digits(body, base, 0), ok |-> TRUE]
    ELSE [v |-> 0, ok |-> FALSE]

\* strconv.ParseUint(u, 0, 64) on texts without underscores.  A syntax
\* error yields 0.  The texts of the model are too short to leave the 64-bit
\* range, so the range error does not arise.
ParseUint(u) == Number(BodyOf(u), BaseOf(u))

\* The result r of ParseUint with the sign applied.
Signed(neg, r) == [v |-> IF neg THEN -r.v ELSE r.v, ok |-> r.ok]

\* strconv.ParseInt(s, 0, 64): an optional sign, then ParseUint.
ParseInt(s) ==
    IF s = <<>> THEN [v |-> 0, ok |-> FALSE]
    ELSE Signed(s[1] = "-", ParseUint(IF s[1] \in {"+", "-"} THEN Tail(s) ELSE s))

PlusOne == <<"+", "1">>

\* The assignment *p = v and the return of err that end the scalar Set
\* methods, with r what strconv returned: the value is stored whether or not
\* the text was accepted.
Stored(val, r) == [val |-> [val EXCEPT !.v = r.v], ok |-> r.ok]

\* boolValue.Set.
boolValueSet(val, s) == Stored(val, ParseBool(s))

\* intValue.Set.
intValueSet(val, s) == Stored(val, ParseInt(s))

\* countValue.Set: "+1" increments, any other text is parsed as an integer.
countValueSet(val, s) ==
    IF s = PlusOne THEN [val |-> [val EXCEPT !.v = val.v + 1], ok |-> TRUE]
    ELSE Stored(val, ParseInt(s))

\* stringValueSet with the bug of appending to the text held.
stringValueSetAppends(val, s) == [val |-> [val EXCEPT !.v = @ \o s], ok |-> TRUE]

\* stringValue.Set: every text is accepted.
stringValueSet(val, s) == [val |-> [val EXCEPT !.v = s], ok |-> TRUE]

\* strings.Index(s, ","), counted from 1; 0 when there is none.
IndexComma(s) ==
    IF \E i \in 1..Len(s) : s[i] = ","
    THEN CHOOSE i \in 1..Len(s) : s[i] = "," /\ \A j \in 1..(i - 1) : s[j] # ","
    ELSE 0

RECURSIVE SplitComma(_)
\* strings.Split(s, ","): the texts between the commas, at least one.
SplitComma(s) ==
    IF IndexComma(s) = 0 THEN <<s>>
    ELSE <<SubSeq(s, 1, IndexComma(s) - 1)>> \o SplitComma(From(s, IndexComma(s)))

\* strconv.Atoi: an optional sign, then decimal digits.
Atoi(s) ==
    IF s = <<>> THEN [v |-> 0, ok |-> FALSE]
    ELSE Signed(s[1] = "-", Number(IF s[1] \in {"+", "-"} THEN Tail(s) ELSE s, 10))

\* The end of the Set methods of the list Values, with out the elements
\* parsed: the first call replaces the content, a later one appends.
Accumulated(val, out) ==
    [val |-> [val EXCEPT !.v = IF ~val.changed THEN out ELSE val.v \o out,
                         !.changed = TRUE],
     ok |-> TRUE]

\* intSliceValue.Set after strconv.Atoi returned rs for the parts of the
\* text: the first error is returned and nothing stored.
intSliceStored(val, rs) ==
    IF \E i \in 1..Len(rs) : ~rs[i].ok THEN [val |-> val, ok |-> FALSE]
    ELSE Accumulated(val, [i \in 1..Len(rs) |-> rs[i].v])

\* The conversions of the parts ss of a text by strconv.Atoi.
AtoiAll(ss) == [i \in 1..Len(ss) |-> Atoi(ss[i])]

\* intSliceValue.Set.
intSliceValueSet(val, s) == intSliceStored(val, AtoiAll(SplitComma(s)))

\* stringArrayValue.Set: the empty text is accepted and changes nothing;
\* any other text is one element, never split.
stringArrayValueSet(val, s) ==
    IF s = <<>> THEN [val |-> val, ok |-> TRUE]
    ELSE Accumulated(val, <<s>>)

\* strings.Count(s, "=").
CountEq(s) == Cardinality({i \in 1..Len(s) : s[i] = "="})

RECURSIVE TrimQuotes(_)
\* strings.Trim(s, `"`).
TrimQuotes(s) ==
    IF s = <<>> THEN s
    ELSE IF s[1] = "\"" THEN TrimQuotes(Tail(s))
    ELSE IF s[Len(s)] = "\"" THEN TrimQuotes(SubSeq(s, 1, Len(s) - 1))
    ELSE s

\* The pairs stringToStringValue.Set reads from a text with at least one
\* "=": the whole text with one "=", else the fields of the text read as one
\* CSV record.  The texts of the model hold no quote and no line end, so the
\* fields are the texts between the commas.
PairsOf(s) == IF CountEq(s) = 1 THEN <<TrimQuotes(s)>> ELSE SplitComma(s)

RECURSIVE PairsToMap(_, _)
\* The map out of stringToStringValue.Set for the pairs ss, after the keys
\* of acc: a later pair wins its key.
PairsToMap(ss, acc) ==
    IF ss = <<>> THEN acc
    ELSE PairsToMap(Tail(ss),
                    [k \in DOMAIN acc \cup {SplitN2(Head(ss))[1]} |->
                        IF k = SplitN2(Head(ss))[1] THEN SplitN2(Head(ss))[2]
                        ELSE acc[k]])

\* The end of stringToStringValue.Set, with out the map parsed: the first
\* call replaces the content, a later one merges out over it.
Merged(val, out) ==
    [val |-> [val EXCEPT !.v = IF ~val.changed THEN out
                                ELSE [k \in DOMAIN val.v \cup DOMAIN out |->
                                         IF k \in DOMAIN out THEN out[k] ELSE val.v[k]],
                         !.changed = TRUE],
     ok |-> TRUE]

\* stringToStringValue.Set after the pairs ss were read: a pair without "="
\* is an error and nothing is stored.
stringToStringStored(val, ss) ==
    IF \E i \in 1..Len(ss) : Len(SplitN2(ss[i])) # 2 THEN [val |-> val, ok |-> FALSE]
    ELSE Merged(val, PairsToMap(ss, [k \in {} |-> <<>>]))

\* stringToStringValue.Set: a text without "=" is an error.
stringToStringValueSet(val, s) ==
    IF CountEq(s) = 0 THEN [val |-> val, ok |-> FALSE]
    ELSE stringToStringStored(val, PairsOf(s))

\* Value.Set, dispatched on the dynamic type of the Value.
ValueSet(val, s) ==
    CASE val.type = "bool" -> boolValueSet(val, s)
      [] val.type = "int" -> intValueSet(val, s)
      [] val.type = "count" -> countValueSet(val, s)
      [] val.type = "string" -> stringValueSet(val, s)
      [] val.type = "intSlice" -> intSliceValueSet(val, s)
      [] val.type = "stringArray" -> stringArrayValueSet(val, s)
      [] val.type = "stringToString" -> stringToStringValueSet(val, s)

----------------------------------------------------------------------------
(* The registry *)

\* Flag.Shorthand of a flag without shorthand (the rune 0).
NoShorthand == ""

\* The map m with key k bound to v (m[k] = v of Go).
MapPut(m, k, v) == [x \in DOMAIN m \cup {k} |-> IF x = k THEN v ELSE m[x]]

EmptyMap == [x \in {} |-> 0]

\* NewFlagSet: a new, empty flag set.
NewFlagSet(errorHandling) ==
    [ errorHandling |-> errorHandling,
      argsLenAtDash |-> -1,
      interspersed |-> TRUE,
      SortFlags |-> TRUE,
      UnknownFlags |-> FALSE,
      DisableBuiltinHelp |-> FALSE,
      parsed |-> FALSE,
      formal |-> EmptyMap,
      orderedFormal |-> <<>>,
      shorthands |-> EmptyMap,
      actual |-> EmptyMap,
      orderedActual |-> <<>>,
      args |-> <<>>,
      unknownFlags |-> <<>>,
      normalizeNameFunc |-> "nil",
      sortedFormal |-> <<>>,
      sortedActual |-> <<>> ]

\* wordSepNormalizeFunc of the README: "-" and "_" become ".".
wordSepNormalizeFunc(name) ==
    [i \in 1..Len(name) |-> IF name[i] \in {"-", "_"} THEN "." ELSE name[i]]

\* The two names of aliasNormalizeFunc.
OldFlagName == <<"a", "-", "c">>
NewFlagName == <<"a", "_", "b">>

\* aliasNormalizeFunc of the README: the old name becomes the new one.
aliasNormalizeFunc(name) == IF name = OldFlagName THEN NewFlagName ELSE name

\* FlagSet.normalizeFlagName: the function GetNormalizeFunc returns, applied
\* to name; no translation when none was installed.
normalizeFlagName(fs, name) ==
    CASE fs.normalizeNameFunc = "nil" -> name
      [] fs.normalizeNameFunc = "wordSepNormalizeFunc" -> wordSepNormalizeFunc(name)
      [] fs.normalizeNameFunc = "aliasNormalizeFunc" -> aliasNormalizeFunc(name)

\* AddFlag with the bug of overwriting what a taken name or shorthand is
\* bound to.
AddFlagOverwrites(fs, hp, id) ==
    [f |-> [fs EXCEPT !.formal = MapPut(@, hp[id].Name, id),
                      !.orderedFormal = Append(@, id),
                      !.shorthands = IF hp[id].Shorthand = "" THEN @
                                     ELSE MapPut(@, hp[id].Shorthand, id)],
     heap |-> hp, panic |-> FALSE]

\* FlagSet.AddFlag on the flag at heap address id.  A taken name panics
\* before anything is stored; a taken shorthand panics after the flag was
\* stored in formal and orderedFormal.
AddFlag(fs, hp, id) ==
    LET flag == hp[id]
        normalizedFlagName == normalizeFlagName(fs, flag.Name)
        named == [fs EXCEPT !.formal = MapPut(@, normalizedFlagName, id),
                            !.orderedFormal = Append(@, id)]
        hp1 == [hp EXCEPT ![id].Name = normalizedFlagName]
    IN  IF normalizedFlagName \in DOMAIN fs.formal
        THEN [f |-> fs, heap |-> hp, panic |-> TRUE]
        ELSE IF flag.Shorthand = NoShorthand
        THEN [f |-> named, heap |-> hp1, panic |-> FALSE]
        ELSE IF flag.Shorthand \in DOMAIN fs.shorthands
        THEN [f |-> named, heap |-> hp1, panic |-> TRUE]
        ELSE [f |-> [named EXCEPT !.shorthands = MapPut(@, flag.Shorthand, id)],
              heap |-> hp1, panic |-> FALSE]

\* FlagSet.Var: allocates the Flag with the options applied, then AddFlag.
\* def carries the Value, the name and what the options set.
Var(fs, hp, def) ==
    LET flag == [ Name |-> def.Name,
                  Shorthand |-> def.Shorthand,
                  ShorthandOnly |-> def.ShorthandOnly,
                  NoOptDefVal |-> def.NoOptDefVal,
                  Value |-> def.Value,
                  Changed |-> FALSE ]
    IN  AddFlag(fs, Append(hp, flag), Len(hp) + 1)

\* Assigned with the bug of entering the flag into actual and orderedActual
\* on every successful call.
AssignedAgain(fs, hp, normalName, id, r) ==
    IF ~r.ok
    THEN [f |-> fs, heap |-> [hp EXCEPT ![id].Value = r.val], err |-> ErrInvalidArgument]
    ELSE [f |-> [fs EXCEPT !.actual = MapPut(@, normalName, id),
                           !.orderedActual = Append(@, id)],
          heap |-> [hp EXCEPT ![id].Value = r.val, ![id].Changed = TRUE],
          err |-> ErrNil]

\* FlagSet.Set after flag.Value.Set returned r for the flag at heap address
\* id: an error is returned; else the flag is marked changed, and entered
\* into actual and orderedActual if it was not changed before.
Assigned(fs, hp, normalName, id, r) ==
    IF ~r.ok
    THEN [f |-> fs, heap |-> [hp EXCEPT ![id].Value = r.val], err |-> ErrInvalidArgument]
    ELSE IF ~hp[id].Changed
    THEN [f |-> [fs EXCEPT !.actual = MapPut(@, normalName, id),
                           !.orderedActual = Append(@, id)],
          heap |-> [hp EXCEPT ![id].Value = r.val, ![id].Changed = TRUE],
          err |-> ErrNil]
    ELSE [f |-> fs, heap |-> [hp EXCEPT ![id].Value = r.val], err |-> ErrNil]

\* FlagSet.Set: looks the flag up and delegates to its Value.  The
\* normalized name and the value text are computed once, before the calls
\* that take them.
Set(fs, hp, name, value) ==
    IF normalizeFlagName(fs, name) \notin DOMAIN fs.formal
    THEN [f |-> fs, heap |-> hp, err |-> ErrUnknownFlag]
    ELSE CHOOSE result \in
             {Assigned(fs, hp, normalName, fs.formal[normalName],
                       ValueSet(hp[fs.formal[normalName]].Value, v)) :
                  normalName \in {normalizeFlagName(fs, name)}, v \in {value}} : TRUE

\* delete(m, k) of Go.
MapDelete(m, k) == [x \in DOMAIN m \ {k} |-> m[x]]

\* The characters of the flag names of the model, in the order of their
\* bytes.
ByteOrder == <<"-", ".", "_", "a", "b", "c", "d", "e">>

Byte(c) == CHOOSE i \in 1..Len(ByteOrder) : ByteOrder[i] = c

RECURSIVE StringLess(_, _)
\* s < t of Go strings.
StringLess(s, t) ==
    IF t = <<>> THEN FALSE
    ELSE IF s = <<>> THEN TRUE
    ELSE IF Head(s) = Head(t) THEN StringLess(Tail(s), Tail(t))
    ELSE Byte(Head(s)) < Byte(Head(t))

RECURSIVE StringsSorted(_)
\* sort.StringSlice.Sort on the strings of S.
StringsSorted(S) ==
    IF S = {} THEN <<>>
    ELSE <<CHOOSE x \in S : \A y \in S \ {x} : StringLess(x, y)>>
         \o StringsSorted(S \ {CHOOSE x \in S : \A y \in S \ {x} : StringLess(x, y)})

\* sortFlags: the flags of the map in the order of their keys.
sortFlags(flags) ==
    [i \in 1..Cardinality(DOMAIN flags) |-> flags[StringsSorted(DOMAIN flags)[i]]]

RECURSIVE renamed(_, _, _)
\* The loop of SetNormalizeFunc over the keys of formal in the order the map
\* iteration yields them: a flag whose name normalizes to another key is
\* renamed and moved to that key in formal and, if it is there, in actual.
\* A key the loop inserts may be visited too: its flag carries that name
\* already and the visit changes nothing.
renamed(fs, hp, keys) ==
    IF keys = <<>> THEN [f |-> fs, heap |-> hp]
    ELSE IF Head(keys) = normalizeFlagName(fs, hp[fs.formal[Head(keys)]].Name)
    THEN renamed(fs, hp, Tail(keys))
    ELSE renamed([fs EXCEPT
                     !.formal = MapPut(MapDelete(@, Head(keys)),
                                       normalizeFlagName(fs, hp[fs.formal[Head(keys)]].Name),
                                       fs.formal[Head(keys)]),
                     !.actual = IF Head(keys) \in DOMAIN @
                                THEN MapPut(MapDelete(@, Head(keys)),
                                            normalizeFlagName(fs, hp[fs.formal[Head(keys)]].Name),
                                            fs.formal[Head(keys)])
                                ELSE @],
                 [hp EXCEPT ![fs.formal[Head(keys)]].Name =
                                normalizeFlagName(fs, hp[fs.formal[Head(keys)]].Name)],
                 Tail(keys))

\* FlagSet.SetNormalizeFunc(n), the map iteration yielding the keys in the
\* order keys: n is installed, sortedFormal emptied, and every registered
\* flag renamed.
SetNormalizeFunc(fs, hp, n, keys) ==
    renamed([fs EXCEPT !.normalizeNameFunc = n, !.sortedFormal = <<>>], hp, keys)

\* FlagSet.Lookup: the heap address of the flag, 0 for nil.
Lookup(fs, name) ==
    IF normalizeFlagName(fs, name) \in DOMAIN fs.formal
    THEN fs.formal[normalizeFlagName(fs, name)]
    ELSE 0

\* FlagSet.ShorthandLookup: the heap address of the flag, 0 for nil.
ShorthandLookup(fs, c) == IF c \in DOMAIN fs.shorthands THEN fs.shorthands[c] ELSE 0

\* FlagSet.Changed.
Changed(fs, hp, name) == IF Lookup(fs, name) = 0 THEN FALSE ELSE hp[Lookup(fs, name)].Changed

\* FlagSet.NFlag.
NFlag(fs) == Cardinality(DOMAIN fs.actual)

\* FlagSet.GetAllFlags: with SortFlags the sorted view, made anew when its
\* length is not the number of registered flags; else orderedFormal.
GetAllFlags(fs) ==
    IF ~fs.SortFlags THEN [f |-> fs, flags |-> fs.orderedFormal]
    ELSE IF Cardinality(DOMAIN fs.formal) # Len(fs.sortedFormal)
    THEN [f |-> [fs EXCEPT !.sortedFormal = sortFlags(fs.formal)],
          flags |-> sortFlags(fs.formal)]
    ELSE [f |-> fs, flags |-> fs.sortedFormal]

\* FlagSet.VisitAll: the flags fn is called for, in order.
VisitAll(fs) ==
    IF Cardinality(DOMAIN fs.formal) = 0 THEN [f |-> fs, flags |-> <<>>]
    ELSE GetAllFlags(fs)

\* FlagSet.GetFlags: as GetAllFlags, on actual, sortedActual and
\* orderedActual.
GetFlags(fs) ==
    IF ~fs.SortFlags THEN [f |-> fs, flags |-> fs.orderedActual]
    ELSE IF Cardinality(DOMAIN fs.actual) # Len(fs.sortedActual)
    THEN [f |-> [fs EXCEPT !.sortedActual = sortFlags(fs.actual)],
          flags |-> sortFlags(fs.actual)]
    ELSE [f |-> fs, flags |-> fs.sortedActual]

\* FlagSet.Visit: the flags fn is called for, in order.
Visit(fs) ==
    IF Cardinality(DOMAIN fs.actual) = 0 THEN [f |-> fs, flags |-> <<>>]
    ELSE GetFlags(fs)

ErrNotDefined == "flag accessed but not defined"
ErrWrongType == "trying to get value of flag of another type"

\* What Get and the typed getters return as value next to an error.
Nil == "nil"

\* getFlagType with the bug of not comparing the types.
getFlagTypeUntyped(fs, hp, name, ftype) ==
    IF Lookup(fs, name) = 0 THEN [v |-> Nil, err |-> ErrNotDefined]
    ELSE [v |-> hp[Lookup(fs, name)].Value.v, err |-> ErrNil]

\* FlagSet.getFlagType: the value of the named flag, if it is registered and
\* of the type asked for; ftype "" asks for any type.
getFlagType(fs, hp, name, ftype) ==
    IF Lookup(fs, name) = 0 THEN [v |-> Nil, err |-> ErrNotDefined]
    ELSE IF ftype # "" /\ hp[Lookup(fs, name)].Value.type # ftype
    THEN [v |-> Nil, err |-> ErrWrongType]
    ELSE [v |-> hp[Lookup(fs, name)].Value.v, err |-> ErrNil]

\* The zero value of a type of Go.
Zero(ftype) ==
    CASE ftype = "int" -> 0
      [] ftype = "string" -> <<>>
      [] ftype = "bool" -> FALSE

\* The end of GetInt, GetString and GetBool after getFlagType returned r:
\* the zero value goes with an error.
typedResult(ftype, r) == IF r.err # ErrNil THEN [v |-> Zero(ftype), err |-> r.err] ELSE r

\* FlagSet.Get (ftype "") and the typed getters.
Getter(fs, hp, name, ftype) ==
    IF ftype = "" THEN getFlagType(fs, hp, name, ftype)
    ELSE typedResult(ftype, getFlagType(fs, hp, name, ftype))

RECURSIVE AddFlagSet(_, _, _)
\* FlagSet.AddFlagSet, with flags the flags newSet.VisitAll yields: each one
\* f.Lookup does not find under its name is added; a panic of AddFlag ends
\* the call.
AddFlagSet(fs, hp, flags) ==
    IF flags = <<>> THEN [f |-> fs, heap |-> hp, panic |-> FALSE]
    ELSE IF Lookup(fs, hp[Head(flags)].Name) # 0 THEN AddFlagSet(fs, hp, Tail(flags))
    ELSE IF AddFlag(fs, hp, Head(flags)).panic THEN AddFlag(fs, hp, Head(flags))
    ELSE AddFlagSet(AddFlag(fs, hp, Head(flags)).f, AddFlag(fs, hp, Head(flags)).heap,
                    Tail(flags))

----------------------------------------------------------------------------
(* The parser *)

\* FlagSet.addUnknownFlag.
addUnknownFlag(fs, s) == [fs EXCEPT !.unknownFlags = Append(@, s)]

\* stripUnknownFlagValue with the bug of taking a token that starts with "-"
\* for the value too.
stripUnknownFlagValueGreedy(fs, args) ==
    IF Len(args) = 0 THEN [f |-> fs, out |-> args]
    ELSE IF Len(args) > 1
    THEN [f |-> addUnknownFlag(fs, args[1]), out |-> Tail(args)]
    ELSE [f |-> fs, out |-> <<>>]

\* FlagSet.stripUnknownFlagValue: the tokens that remain after the value of
\* an unknown flag, if it has one, was taken off args.
stripUnknownFlagValue(fs, args) ==
    IF Len(args) = 0 THEN [f |-> fs, out |-> args]
    ELSE IF Len(args[1]) > 0 /\ args[1][1] = "-" THEN [f |-> fs, out |-> args]
    ELSE IF Len(args) > 1
    THEN [f |-> addUnknownFlag(fs, args[1]), out |-> Tail(args)]
    ELSE [f |-> fs, out |-> <<>>]

N_help == <<"h", "e", "l", "p">>

\* What a parse step returns when it called no fn(flag, value).
NoCall == <<>>

\* The call fn(flag, value) of Parse: f.Set(flag.Name, value).
Call(name, value) == <<[name |-> name, value |-> value]>>

\* What parseLongArg and parseSingleShortArg return: the flag set and heap,
\* the cluster rest and tokens left, the error, and the call of fn made.
Returned(fs, hp, outShorts, outArgs, e, call) ==
    [f |-> fs, heap |-> hp, outShorts |-> outShorts, outArgs |-> outArgs,
     err |-> e, call |-> call]

\* The return after err = fn(flag, value), with r what Set returned.
Applied(r, outShorts, outArgs, call) ==
    Returned(r.f, r.heap, outShorts, outArgs, r.err, call)

\* The return after an unknown flag was recorded and
\* stripUnknownFlagValue returned r.
Stripped(r, hp, outShorts) == Returned(r.f, hp, outShorts, r.out, ErrNil, NoCall)

\* builtinHelpLong with the bug of letting the allowlist go first.
builtinHelpLongTolerant(fs, exists, name) ==
    ~exists /\ name = N_help /\ ~fs.DisableBuiltinHelp /\ ~fs.UnknownFlags

\* parseLongArg's first case for a name that did not resolve: the built-in
\* help.
builtinHelpLong(fs, exists, name) ==
    ~exists /\ name = N_help /\ ~fs.DisableBuiltinHelp

\* toleratedLong with the bug of recording whatever the allowlist says.
toleratedLongAlways(fs, exists, shorthandOnly) == TRUE

\* parseLongArg's second case: the token is recorded, not refused.
toleratedLong(fs, exists, shorthandOnly) ==
    fs.UnknownFlags \/ (exists /\ shorthandOnly)

\* parseLongArg's choice of the value text: split is the token's name split
\* at its first "=", noOptDefVal the flag's, args the tokens after the token.
longValue(split, noOptDefVal, args) ==
    IF Len(split) = 2 THEN split[2]
    ELSE IF noOptDefVal # <<>> THEN noOptDefVal
    ELSE args[1]

\* unresolvedLong with the bug of taking a shorthand-only flag for one that
\* its long name sets.
unresolvedLongByName(exists, shorthandOnly) == ~exists

\* parseLongArg's test for a name that is not parsed as a flag: it is not
\* registered, or the flag is shorthand-only.
unresolvedLong(exists, shorthandOnly) == IF exists THEN shorthandOnly ELSE TRUE

\* longOutArgs with the bug of never taking the next token off the vector.
longOutArgsKeepsNext(split, noOptDefVal, args) == args

\* The tokens parseLongArg leaves after it chose the value.
longOutArgs(split, noOptDefVal, args) ==
    IF Len(split) = 2 THEN args
    ELSE IF noOptDefVal # <<>> THEN args
    ELSE Tail(args)

\* parseLongArg's last case: no value text to choose.
longNeedsArg(split, noOptDefVal, args) ==
    Len(split) # 2 /\ noOptDefVal = <<>> /\ Len(args) = 0

\* FlagSet.parseLongArg on the token s, with args the tokens after it.
parseLongArg(fs, hp, s, args) ==
    LET name0 == From(s, 2)
        split == SplitN2(name0)
        name == split[1]
        exists == normalizeFlagName(fs, name) \in DOMAIN fs.formal
        flag == hp[fs.formal[normalizeFlagName(fs, name)]]
    IN  IF Len(name0) = 0 \/ name0[1] = "-" \/ name0[1] = "="
        THEN Returned(fs, hp, <<>>, args, ErrBadSyntax, NoCall)
        ELSE IF unresolvedLong(exists, exists /\ flag.ShorthandOnly)
        THEN IF builtinHelpLong(fs, exists, name)
             THEN Returned(fs, hp, <<>>, args, ErrHelp, NoCall)
             ELSE IF toleratedLong(fs, exists, exists /\ flag.ShorthandOnly)
             THEN IF Len(split) >= 2
                  THEN Returned(addUnknownFlag(fs, s), hp, <<>>, args, ErrNil, NoCall)
                  ELSE Stripped(stripUnknownFlagValue(addUnknownFlag(fs, s), args),
                                hp, <<>>)
             ELSE Returned(fs, hp, <<>>, args, ErrUnknownFlag, NoCall)
        ELSE IF longNeedsArg(split, flag.NoOptDefVal, args)
        THEN Returned(fs, hp, <<>>, args, ErrNeedsArgument, NoCall)
        ELSE Applied(Set(fs, hp, flag.Name, longValue(split, flag.NoOptDefVal, args)),
                     <<>>, longOutArgs(split, flag.NoOptDefVal, args),
                     Call(flag.Name, longValue(split, flag.NoOptDefVal, args)))

\* parseSingleShortArg's first case for an unbound rune: the built-in help.
builtinHelpShort(fs, char) == char = "h" /\ ~fs.DisableBuiltinHelp

\* parseSingleShortArg's test for a cluster recorded whole as unknown.
packedUnknown(sh) == Len(sh) > 2

\* explicitShort with the bug of taking '-f=' for an explicit empty value.
explicitShortLoose(sh) == IF Len(sh) > 1 THEN sh[2] = "=" ELSE FALSE

\* parseSingleShortArg's test for '-f=arg'.
explicitShort(sh) == IF Len(sh) > 2 THEN sh[2] = "=" ELSE FALSE

\* parseSingleShortArg's choice of the value text for the first rune of the
\* cluster rest sh.
shortValue(sh, noOptDefVal, args) ==
    IF explicitShort(sh) THEN From(sh, 2)
    ELSE IF noOptDefVal # <<>> THEN noOptDefVal
    ELSE IF Len(sh) > 1 THEN From(sh, 1)
    ELSE args[1]

\* shortOutShorts with the bug of ending the cluster after every flag.
shortOutShortsEnds(sh, noOptDefVal) == <<>>

\* shortOutShorts with the bug of leaving the rune just decoded in the
\* cluster.
shortOutShortsStays(sh, noOptDefVal) == sh

\* The cluster rest parseSingleShortArg leaves after it chose the value.
shortOutShorts(sh, noOptDefVal) ==
    IF explicitShort(sh) THEN <<>>
    ELSE IF noOptDefVal # <<>> THEN From(sh, 1)
    ELSE IF Len(sh) > 1 THEN <<>>
    ELSE From(sh, 1)

\* shortOutArgs with the bug of never taking the next token off the vector.
shortOutArgsKeepsNext(sh, noOptDefVal, args) == args

\* The tokens parseSingleShortArg leaves after it chose the value.
shortOutArgs(sh, noOptDefVal, args) ==
    IF explicitShort(sh) THEN args
    ELSE IF noOptDefVal # <<>> THEN args
    ELSE IF Len(sh) > 1 THEN args
    ELSE Tail(args)

\* parseSingleShortArg's last case: no value text to choose.
shortNeedsArg(sh, noOptDefVal, args) ==
    ~explicitShort(sh) /\ noOptDefVal = <<>> /\ Len(sh) <= 1 /\ Len(args) = 0

\* FlagSet.parseSingleShortArg on the cluster rest sh (not empty), with args
\* the tokens after the cluster's token.
parseSingleShortArg(fs, hp, sh, args) ==
    LET char == sh[1]
        exists == char \in DOMAIN fs.shorthands
        flag == hp[fs.shorthands[char]]
    IN  IF ~exists
        THEN IF builtinHelpShort(fs, char)
             THEN Returned(fs, hp, From(sh, 1), args, ErrHelp, NoCall)
             ELSE IF fs.UnknownFlags
             THEN IF packedUnknown(sh)
                  THEN Returned(addUnknownFlag(fs, <<"-">> \o sh), hp, <<>>, args,
                                ErrNil, NoCall)
                  ELSE IF Len(From(sh, 1)) = 0
                  THEN Stripped(stripUnknownFlagValue(
                                    addUnknownFlag(fs, <<"-", char>>), args),
                                hp, From(sh, 1))
                  ELSE Returned(addUnknownFlag(fs, <<"-", char>>), hp, From(sh, 1),
                                args, ErrNil, NoCall)
             ELSE Returned(fs, hp, From(sh, 1), args, ErrUnknownShorthand, NoCall)
        ELSE IF shortNeedsArg(sh, flag.NoOptDefVal, args)
        THEN Returned(fs, hp, From(sh, 1), args, ErrNeedsArgument, NoCall)
        ELSE Applied(Set(fs, hp, flag.Name, shortValue(sh, flag.NoOptDefVal, args)),
                     shortOutShorts(sh, flag.NoOptDefVal),
                     shortOutArgs(sh, flag.NoOptDefVal, args),
                     Call(flag.Name, shortValue(sh, flag.NoOptDefVal, args)))

\* The index in arguments of the first token of rest.
PosOfHead == Len(arguments) - Len(rest) + 1

\* parseArgs' test for a token that is no flag.
IsPositional(s) ==
    IF Len(s) = 0 THEN TRUE ELSE IF s[1] # "-" THEN TRUE ELSE Len(s) = 1

\* The history record of one parser step: the token's index, the cluster
\* rest the step started from (empty outside a cluster), the fn(flag, value)
\* call it made if any, the number of tokens left after it, the cluster rest
\* left after it, and its error.
Entry(pos, cl, call, after, outShorts, e) ==
    [pos |-> pos, cl |-> cl, call |-> call, after |-> after,
     outShorts |-> outShorts, err |-> e]

\* parseArgs' loop test after a step with the tokens out left and error e.
AfterStep(out, e) == IF e # ErrNil \/ Len(out) = 0 THEN "ret" ELSE "scan"

\* Parse, up to the call of parseArgs (parseAll): an empty vector returns at
\* once and leaves args alone.
Parse ==
    /\ pc = "idle"
    /\ IF Len(arguments) = 0
       THEN /\ f' = [f EXCEPT !.parsed = TRUE]
            /\ pc' = "done"
            /\ outcome' = "returned"
       ELSE /\ f' = [f EXCEPT !.parsed = TRUE, !.args = <<>>]
            /\ pc' = "scan"
            /\ outcome' = outcome
    /\ rest' = arguments
    /\ argPos' = <<>>
    /\ UNCHANGED <<heap, arguments, shorthands, err, log, api, donor>>

\* collected with the bug of leaving out the tokens after s.
collectedAlone(fs, s, args) == [fs EXCEPT !.args = Append(@, s)]

\* parseArgs' assignments on the token s that is no flag, with args the
\* tokens after it.
collected(fs, s, args) ==
    IF ~fs.interspersed
    THEN [fs EXCEPT !.args = (@ \o <<s>>) \o args]
    ELSE [fs EXCEPT !.args = Append(@, s)]

\* parseArgs on a token that is no flag: collected; without interspersed
\* mode every token after it is collected too and parseArgs returns.
PositionalArg ==
    /\ pc = "scan"
    /\ IsPositional(Head(rest))
    /\ f' = collected(f, Head(rest), Tail(rest))
    /\ IF ~f.interspersed
       THEN /\ argPos' = argPos \o [i \in 1..Len(rest) |-> PosOfHead + i - 1]
            /\ pc' = "ret"
       ELSE /\ argPos' = Append(argPos, PosOfHead)
            /\ pc' = AfterStep(Tail(rest), ErrNil)
    /\ rest' = Tail(rest)
    /\ log' = Append(log, Entry(PosOfHead, <<>>, NoCall, Len(Tail(rest)), <<>>, ErrNil))
    /\ UNCHANGED <<heap, arguments, shorthands, err, outcome, api, donor>>

\* terminated with the bug of counting after the append.
terminatedLate(fs, args) ==
    [fs EXCEPT !.argsLenAtDash = Len(fs.args) + Len(args), !.args = fs.args \o args]

\* parseArgs' assignments on the terminator, with args the tokens after it.
terminated(fs, args) ==
    [fs EXCEPT !.argsLenAtDash = Len(fs.args), !.args = fs.args \o args]

\* parseArgs on the token "--": the terminator.
Terminator ==
    /\ pc = "scan"
    /\ Head(rest) = <<"-", "-">>
    /\ f' = terminated(f, Tail(rest))
    /\ argPos' = argPos \o [i \in 1..Len(Tail(rest)) |-> PosOfHead + i]
    /\ pc' = "ret"
    /\ rest' = Tail(rest)
    /\ log' = Append(log, Entry(PosOfHead, <<>>, NoCall, Len(Tail(rest)), <<>>, ErrNil))
    /\ UNCHANGED <<heap, arguments, shorthands, err, outcome, api, donor>>

\* parseArgs on a token that starts with "--" and is longer: parseLongArg.
LongArg ==
    /\ pc = "scan"
    /\ ~IsPositional(Head(rest))
    /\ Head(rest)[2] = "-"
    /\ Len(Head(rest)) # 2
    /\ \E r \in {parseLongArg(f, heap, Head(rest), Tail(rest))} :
           /\ f' = r.f
           /\ heap' = r.heap
           /\ rest' = r.outArgs
           /\ err' = r.err
           /\ pc' = AfterStep(r.outArgs, r.err)
           /\ log' = Append(log, Entry(PosOfHead, <<>>, r.call, Len(r.outArgs), <<>>, r.err))
    /\ UNCHANGED <<arguments, shorthands, outcome, argPos, api, donor>>

\* parseArgs on a token that starts with one "-": parseShortArg, up to its
\* loop.
ShortArg ==
    /\ pc = "scan"
    /\ ~IsPositional(Head(rest))
    /\ Head(rest)[2] # "-"
    /\ shorthands' = From(Head(rest), 1)
    /\ rest' = Tail(rest)
    /\ pc' = "short"
    /\ UNCHANGED <<f, heap, arguments, err, outcome, log, argPos, api, donor>>

\* One turn of parseShortArg's loop: parseSingleShortArg on the cluster
\* rest, always with the tokens after the cluster's token.  When the cluster
\* is used up parseShortArg returns the tokens the last turn left.
SingleShortArg ==
    /\ pc = "short"
    /\ \E r \in {parseSingleShortArg(f, heap, shorthands, rest)} :
           /\ f' = r.f
           /\ heap' = r.heap
           /\ err' = r.err
           /\ shorthands' = r.outShorts
           /\ IF r.err = ErrNil /\ Len(r.outShorts) > 0
              THEN pc' = "short" /\ rest' = rest
              ELSE pc' = AfterStep(r.outArgs, r.err) /\ rest' = r.outArgs
           /\ log' = Append(log, Entry(Len(arguments) - Len(rest), shorthands, r.call,
                                       Len(r.outArgs), r.outShorts, r.err))
    /\ UNCHANGED <<arguments, outcome, argPos, api, donor>>

\* handled with the bug of exiting with status 2 on every error.
handledExitsTwo(errorHandling, e) ==
    IF e = ErrNil THEN "returned"
    ELSE CASE errorHandling = "ContinueOnError" -> "returned"
           [] errorHandling = "ExitOnError" -> "exit2"
           [] errorHandling = "PanicOnError" -> "panic"

\* The end of parseAll with e the error of parseArgs: the switch on the
\* error handling policy.
handled(errorHandling, e) ==
    IF e = ErrNil THEN "returned"
    ELSE CASE errorHandling = "ContinueOnError" -> "returned"
           [] errorHandling = "ExitOnError" -> IF e = ErrHelp THEN "exit0" ELSE "exit2"
           [] errorHandling = "PanicOnError" -> "panic"

\* parseAll after parseArgs returned: the error handling policy.
ParseReturn ==
    /\ pc = "ret"
    /\ pc' = "done"
    /\ outcome' = handled(f.errorHandling, err)
    /\ UNCHANGED <<f, heap, arguments, rest, shorthands, err, log, argPos, api, donor>>

----------------------------------------------------------------------------
(* The flags and the argument vectors of the model *)

N_verb == <<"v", "e", "r", "b">>
N_num == <<"n", "u", "m">>
N_str == <<"s", "t", "r">>
N_cnt == <<"c", "n", "t">>
N_true == <<"t", "r", "u", "e">>

T_num == <<"-", "-", "n", "u", "m">>
T_num_eq_5 == <<"-", "-", "n", "u", "m", "=", "5">>
T_num_eq == <<"-", "-", "n", "u", "m", "=">>
T_verb == <<"-", "-", "v", "e", "r", "b">>
T_verb_eq_0 == <<"-", "-", "v", "e", "r", "b", "=", "0">>
T_str == <<"-", "-", "s", "t", "r">>
T_str_eq == <<"-", "-", "s", "t", "r", "=">>
T_bad == <<"-", "-", "=", "5">>
T_unk == <<"-", "-", "u", "n", "k">>
T_unk_eq_5 == <<"-", "-", "u", "n", "k", "=", "5">>
T_help == <<"-", "-", "h", "e", "l", "p">>
T_help_eq_5 == <<"-", "-", "h", "e", "l", "p", "=", "5">>
T_dashdash == <<"-", "-">>
T_dash == <<"-">>
T_empty == <<>>
T_5 == <<"5">>
T_a == <<"a">>
S_v == <<"-", "v">>
S_n == <<"-", "n">>
S_n5 == <<"-", "n", "5">>
S_n_eq_5 == <<"-", "n", "=", "5">>
S_n_eq == <<"-", "n", "=">>
S_v_eq_0 == <<"-", "v", "=", "0">>
S_v_eq == <<"-", "v", "=">>
S_vn == <<"-", "v", "n">>
S_vn5 == <<"-", "v", "n", "5">>
S_nv5 == <<"-", "n", "v", "5">>
S_ccc == <<"-", "c", "c", "c">>
S_c_eq_3 == <<"-", "c", "=", "3">>
S_cn5 == <<"-", "c", "n", "5">>
S_s == <<"-", "s">>
S_sv == <<"-", "s", "v">>
S_vvn == <<"-", "v", "v", "n">>
S_x == <<"-", "x">>
S_xy == <<"-", "x", "y">>
S_xyz == <<"-", "x", "y", "z">>
S_vx == <<"-", "v", "x">>
S_x_eq_5 == <<"-", "x", "=", "5">>
S_x_eq == <<"-", "x", "=">>
S_h == <<"-", "h">>
S_vh == <<"-", "v", "h">>

\* Names and tokens for the flags with several values and for the counter.
N_is == <<"i", "s">>
N_sa == <<"s", "a">>
N_map == <<"m", "a", "p">>
M_is_1_2 == <<"-", "-", "i", "s", "=", "1", ",", "2">>
M_is_3 == <<"-", "-", "i", "s", "=", "3">>
M_is_1_x == <<"-", "-", "i", "s", "=", "1", ",", "x">>
M_sa_a_b == <<"-", "-", "s", "a", "=", "a", ",", "b">>
M_sa_c == <<"-", "-", "s", "a", "=", "c">>
M_sa_eq == <<"-", "-", "s", "a", "=">>
M_map_a1_b2 == <<"-", "-", "m", "a", "p", "=", "a", "=", "1", ",", "b", "=", "2">>
M_map_a3 == <<"-", "-", "m", "a", "p", "=", "a", "=", "3">>
M_map_b == <<"-", "-", "m", "a", "p", "=", "b">>
S_c == <<"-", "c">>
T_cnt == <<"-", "-", "c", "n", "t">>
T_cnt_eq_0 == <<"-", "-", "c", "n", "t", "=", "0">>
T_cnt_eq_x == <<"-", "-", "c", "n", "t", "=", "x">>
T_cnt_eq_plus1 == <<"-", "-", "c", "n", "t", "=", "+", "1">>

N_value == <<"v", "a", "l", "u", "e">>
T_value == <<"-", "-", "v", "a", "l", "u", "e">>
T_value_eq_5 == <<"-", "-", "v", "a", "l", "u", "e", "=", "5">>
S_l == <<"-", "l">>
S_l5 == <<"-", "l", "5">>

\* BoolVar: a bool flag, with OptNoOptDefVal("true") appended to its options.
BoolDef(name, shorthand) ==
    [Name |-> name, Shorthand |-> shorthand, ShorthandOnly |-> FALSE,
     NoOptDefVal |-> N_true, Value |-> [type |-> "bool", v |-> FALSE]]

\* IntVar with default 0.
IntDef(name, shorthand) ==
    [Name |-> name, Shorthand |-> shorthand, ShorthandOnly |-> FALSE,
     NoOptDefVal |-> <<>>, Value |-> [type |-> "int", v |-> 0]]

\* StringVar with default "".
StringDef(name, shorthand) ==
    [Name |-> name, Shorthand |-> shorthand, ShorthandOnly |-> FALSE,
     NoOptDefVal |-> <<>>, Value |-> [type |-> "string", v |-> <<>>]]

\* CountVar: a counter from 0, with OptNoOptDefVal("+1") appended.
CountDef(name, shorthand) ==
    [Name |-> name, Shorthand |-> shorthand, ShorthandOnly |-> FALSE,
     NoOptDefVal |-> PlusOne, Value |-> [type |-> "count", v |-> 0]]

\* IntSliceVar with the default value: the Value starts not changed.
IntSliceDef(name, shorthand, value) ==
    [Name |-> name, Shorthand |-> shorthand, ShorthandOnly |-> FALSE,
     NoOptDefVal |-> <<>>,
     Value |-> [type |-> "intSlice", v |-> value, changed |-> FALSE]]

\* StringArrayVar with the default value.
StringArrayDef(name, shorthand, value) ==
    [Name |-> name, Shorthand |-> shorthand, ShorthandOnly |-> FALSE,
     NoOptDefVal |-> <<>>,
     Value |-> [type |-> "stringArray", v |-> value, changed |-> FALSE]]

\* StringToStringVar with the default value.
StringToStringDef(name, shorthand, value) ==
    [Name |-> name, Shorthand |-> shorthand, ShorthandOnly |-> FALSE,
     NoOptDefVal |-> <<>>,
     Value |-> [type |-> "stringToString", v |-> value, changed |-> FALSE]]

\* StringVar with default "", OptShorthand and OptShorthandOnly.
ShorthandOnlyDef(name, shorthand) ==
    [Name |-> name, Shorthand |-> shorthand, ShorthandOnly |-> TRUE,
     NoOptDefVal |-> <<>>, Value |-> [type |-> "string", v |-> <<>>]]

\* The defaults of the flags with several values.
DefaultInts == <<7>>
DefaultStrings == << <<"d">> >>
DefaultMap == [k \in {<<"k">>, <<"a">>} |-> <<"0">>]

\* A flag set with one flag of each kind that holds several values.
MultiDefs == << IntSliceDef(N_is, "i", DefaultInts),
                StringArrayDef(N_sa, "a", DefaultStrings),
                StringToStringDef(N_map, "m", DefaultMap) >>

\* The flags every flag set of the model defines, in this order.
BaseDefs == << BoolDef(N_verb, "v"), IntDef(N_num, "n"),
               StringDef(N_str, "s"), CountDef(N_cnt, "c") >>

HelpDef == BoolDef(N_help, "h")
HelpDefNoShorthand == BoolDef(N_help, NoShorthand)

RECURSIVE Define(_, _, _)
\* The flag set and heap after Var was called for each definition in turn.
Define(fs, hp, defs) ==
    IF defs = <<>> THEN [f |-> fs, heap |-> hp]
    ELSE LET r == Var(fs, hp, Head(defs))
         IN  Define(r.f, r.heap, Tail(defs))

PoolLong == {T_num, T_num_eq_5, T_num_eq, T_verb, T_verb_eq_0, T_str, T_str_eq,
             T_bad, T_5, T_a}
PoolShort == {S_v, S_n, S_n5, S_n_eq_5, S_n_eq, S_v_eq_0, S_vn, S_vn5, S_nv5, T_5}
PoolCluster == {S_ccc, S_c_eq_3, S_cn5, S_s, S_sv, S_v_eq, S_vvn, T_a}
PoolPositional == {T_dashdash, T_dash, T_empty, T_a, T_5, T_num, S_v, T_verb, S_n}
PoolUnknownLong == {T_unk, T_unk_eq_5, T_a, T_empty, T_dash, T_num_eq_5, S_v, T_num}
PoolUnknownShort == {S_x, S_xy, S_xyz, S_vx, S_x_eq_5, S_x_eq, T_a, T_num_eq_5, S_v, S_n}
PoolHelp == {T_help, T_help_eq_5, S_h, S_vh, T_a, T_num_eq_5}
PoolMulti == {M_is_1_2, M_is_3, M_is_1_x, M_sa_a_b, M_sa_c, M_sa_eq,
              M_map_a1_b2, M_map_a3, M_map_b}
PoolCount == {S_c, S_ccc, S_c_eq_3, T_cnt, T_cnt_eq_0, T_cnt_eq_x, T_cnt_eq_plus1,
              S_cn5}
PoolFail == {T_num_eq_5, T_num, T_num_eq, T_unk, T_help, S_h, T_a}
PoolShorthandOnly == {T_value, T_value_eq_5, S_l, S_l5, T_a, T_num_eq_5, T_dashdash}

\* A scenario: the flags defined, the fields the program sets before Parse,
\* and the tokens its argument vector is made of.
Scenario(defs, interspersed, unknownFlags, disableBuiltinHelp, tokens) ==
    [defs |-> defs, interspersed |-> interspersed, UnknownFlags |-> unknownFlags,
     DisableBuiltinHelp |-> disableBuiltinHelp, tokens |-> tokens,
     errorHandling |-> "ContinueOnError"]

\* The scenario sc with the flag set built with another error handling
\* policy.
WithPolicy(sc, errorHandling) == [sc EXCEPT !.errorHandling = errorHandling]

Scenarios ==
    {Scenario(BaseDefs, TRUE, FALSE, FALSE, p) : p \in {PoolLong, PoolShort, PoolCluster}}
    \cup {Scenario(BaseDefs, i, FALSE, FALSE, PoolPositional) : i \in BOOLEAN}
    \cup {Scenario(BaseDefs, TRUE, u, FALSE, p) :
            u \in BOOLEAN, p \in {PoolUnknownLong, PoolUnknownShort}}
    \cup {Scenario(d, TRUE, u, h, PoolHelp) :
            d \in {BaseDefs, Append(BaseDefs, HelpDef), Append(BaseDefs, HelpDefNoShorthand)},
            u \in BOOLEAN, h \in BOOLEAN}
    \cup {Scenario(MultiDefs, TRUE, FALSE, FALSE, PoolMulti),
          Scenario(BaseDefs, TRUE, FALSE, FALSE, PoolCount)}
    \cup {Scenario(Append(BaseDefs, ShorthandOnlyDef(N_value, "l")), TRUE, u, FALSE,
                   PoolShorthandOnly) : u \in BOOLEAN}
    \cup {WithPolicy(Scenario(BaseDefs, TRUE, FALSE, FALSE, PoolFail), p) :
            p \in {"ContinueOnError", "ExitOnError", "PanicOnError"}}

\* The flag set of a scenario: NewFlagSet, the definitions, SetInterspersed
\* and the two public fields.
FlagSetOf(sc) ==
    LET r == Define(NewFlagSet(sc.errorHandling), <<>>, sc.defs)
    IN  [f |-> [r.f EXCEPT !.interspersed = sc.interspersed,
                           !.UnknownFlags = sc.UnknownFlags,
                           !.DisableBuiltinHelp = sc.DisableBuiltinHelp],
         heap |-> r.heap]

\* The history of the API calls before the first call.
NoCalls == [n |-> 0, op |-> "none", name |-> <<>>, value |-> <<>>, err |-> ErrNil,
            got |-> <<>>, added |-> <<>>, firstSets |-> <<>>, renamed |-> FALSE]

Init ==
    \E sc \in Scenarios :
        /\ f = FlagSetOf(sc).f
        /\ heap = FlagSetOf(sc).heap
        /\ arguments \in SeqsUpTo(sc.tokens, MaxArgs)
        /\ pc = "idle"
        /\ rest = <<>>
        /\ shorthands = <<>>
        /\ err = ErrNil
        /\ outcome = "none"
        /\ log = <<>>
        /\ argPos = <<>>
        /\ api = NoCalls
        /\ donor = NewFlagSet("ContinueOnError")

Next ==
    \/ Parse
    \/ PositionalArg
    \/ Terminator
    \/ LongArg
    \/ ShortArg
    \/ SingleShortArg
    \/ ParseReturn

Spec == Init /\ [][Next]_vars

----------------------------------------------------------------------------
(* The calls of the API on a flag set, any number in any order.  A panic of *)
(* a call is recovered by the caller, who goes on with the flag set.        *)

N_aUb == <<"a", "_", "b">>
N_aDc == <<"a", "-", "c">>
N_aDb == <<"a", "-", "b">>
N_aPb == <<"a", ".", "b">>
N_d == <<"d">>
N_e == <<"e">>
N_zz == <<"z", "z">>

T_aDc_eq_1 == <<"-", "-", "a", "-", "c", "=", "1">>
T_aUb_eq_x == <<"-", "-", "a", "_", "b", "=", "x">>
S_x1 == <<"-", "x", "1">>

\* The definitions Var is called with.
RegDefs == {StringDef(N_aUb, "x"), IntDef(N_aDc, "y"), BoolDef(N_aDb, NoShorthand),
            IntDef(N_d, "x")}

\* The flag set handed to AddFlagSet, and the heap with its flags.
Donor == Define(NewFlagSet("ContinueOnError"), <<>>,
                <<StringDef(N_e, "x"), IntDef(N_aDc, "z")>>)

\* The definitions a flag set starts with.
RegStarts == {<<>>,
              <<StringDef(N_aUb, "x"), IntDef(N_aDc, "y")>>,
              <<BoolDef(N_aDb, NoShorthand), StringDef(N_aUb, "x")>>}

\* The names and the texts the calls are made with, the functions
\* SetNormalizeFunc installs, the types the getters ask for.
RegNames == {N_aUb, N_aDc, N_aDb, N_aPb, N_d, N_zz}
RegValues == {<<"1">>, <<"x">>}
NormalizeFuncs == {"nil", "wordSepNormalizeFunc", "aliasNormalizeFunc"}
GetNames == {N_aUb, N_zz}
GetTypes == {"", "int", "string"}

RECURSIVE Orders(_)
\* The orders a map iteration can yield the keys S in.
Orders(S) ==
    IF S = {} THEN {<<>>}
    ELSE UNION {{<<x>> \o p : p \in Orders(S \ {x})} : x \in S}

ErrPanic == "panic"

RECURSIVE Absorb(_, _)
\* The flags in the order of their first successful Set, acc, continued by
\* the successful Set calls of the parser steps es.
Absorb(es, acc) ==
    IF es = <<>> THEN acc
    ELSE Absorb(Tail(es),
                IF /\ Head(es).call # <<>>
                   /\ Head(es).err = ErrNil
                   /\ Lookup(f, Head(es).call[1].name) \notin Range(acc)
                THEN Append(acc, Lookup(f, Head(es).call[1].name))
                ELSE acc)

\* The flags in the order of their first successful Set, those of the last
\* Parse included.
FirstSetsNow == Absorb(log, api.firstSets)

\* The history after the call op(name, value) returned err and got.  n
\* counts the calls that register, rename, set or parse.
After(op, name, value, e, got) ==
    [api EXCEPT !.n = IF op \in {"Get", "Visit", "VisitAll"} THEN @ ELSE @ + 1,
                !.op = op, !.name = name, !.value = value, !.err = e, !.got = got,
                !.firstSets = FirstSetsNow]

\* The flags in the order they were registered, after a call that offered
\* the flags ids in turn and left the flag set fs: those now in formal are
\* registered.
Added(fs, ids) ==
    api.added \o SelectSeq(ids, LAMBDA id : /\ id \notin Range(api.added)
                                             /\ \E k \in DOMAIN fs.formal : fs.formal[k] = id)

\* No Parse is running, and none has ended the process.
Idle == pc = "done" /\ outcome \notin {"exit0", "exit2"}

\* No Parse is running, and the bound of the model allows one more call
\* that registers, renames or sets.
Callable == Idle /\ api.n < MaxCalls

VarCall ==
    /\ Callable
    /\ \E def \in RegDefs : \E r \in {Var(f, heap, def)} :
           /\ f' = r.f
           /\ heap' = r.heap
           /\ api' = [After("Var", def.Name, def.Shorthand,
                            IF r.panic THEN ErrPanic ELSE ErrNil, Len(heap) + 1)
                         EXCEPT !.added = Added(r.f, <<Len(heap) + 1>>)]
    /\ log' = <<>>
    /\ UNCHANGED <<arguments, pc, rest, shorthands, err, outcome, argPos, donor>>

\* AddFlag on a Flag the caller holds: one of another flag set, or one
\* registered before.
AddFlagCall ==
    /\ Callable
    /\ \E id \in 1..Len(heap) : \E r \in {AddFlag(f, heap, id)} :
           /\ f' = r.f
           /\ heap' = r.heap
           /\ api' = [After("AddFlag", heap[id].Name, heap[id].Shorthand,
                            IF r.panic THEN ErrPanic ELSE ErrNil, id)
                         EXCEPT !.added = Added(r.f, <<id>>)]
    /\ log' = <<>>
    /\ UNCHANGED <<arguments, pc, rest, shorthands, err, outcome, argPos, donor>>

AddFlagSetCall ==
    /\ Callable
    /\ \E r \in {AddFlagSet(f, heap, VisitAll(donor).flags)} :
           /\ f' = r.f
           /\ heap' = r.heap
           /\ api' = [After("AddFlagSet", <<>>, <<>>,
                            IF r.panic THEN ErrPanic ELSE ErrNil, <<>>)
                         EXCEPT !.added = Added(r.f, VisitAll(donor).flags)]
    /\ donor' = VisitAll(donor).f
    /\ log' = <<>>
    /\ UNCHANGED <<arguments, pc, rest, shorthands, err, outcome, argPos>>

SetNormalizeFuncCall ==
    /\ Callable
    /\ \E n \in NormalizeFuncs : \E keys \in Orders(DOMAIN f.formal) :
           \E r \in {SetNormalizeFunc(f, heap, n, keys)} :
               /\ f' = r.f
               /\ heap' = r.heap
               /\ api' = [After("SetNormalizeFunc", <<>>, n, ErrNil, <<>>)
                             EXCEPT !.renamed = TRUE]
    /\ log' = <<>>
    /\ UNCHANGED <<arguments, pc, rest, shorthands, err, outcome, argPos, donor>>

\* The flags in the order of their first successful Set, after Set(name, _)
\* returned e on the flag set fs.
FirstSets(fs, name, e) ==
    IF e = ErrNil /\ Lookup(fs, name) \notin Range(FirstSetsNow)
    THEN Append(FirstSetsNow, Lookup(fs, name))
    ELSE FirstSetsNow

SetCall ==
    /\ Callable
    /\ \E name \in RegNames, value \in RegValues : \E r \in {Set(f, heap, name, value)} :
           /\ f' = r.f
           /\ heap' = r.heap
           /\ api' = [After("Set", name, value, r.err, <<>>)
                         EXCEPT !.firstSets = FirstSets(f, name, r.err)]
    /\ log' = <<>>
    /\ UNCHANGED <<arguments, pc, rest, shorthands, err, outcome, argPos, donor>>

\* Get, GetInt and GetString.
GetCall ==
    /\ Idle
    /\ \E name \in GetNames, ftype \in GetTypes :
           \E r \in {Getter(f, heap, name, ftype)} :
               api' = After("Get", name, ftype, r.err, r.v)
    /\ log' = <<>>
    /\ UNCHANGED <<f, heap, arguments, pc, rest, shorthands, err, outcome, argPos, donor>>

VisitCall ==
    /\ Idle
    /\ \E r \in {Visit(f)} :
           /\ f' = r.f
           /\ api' = After("Visit", <<>>, <<>>, ErrNil, r.flags)
    /\ log' = <<>>
    /\ UNCHANGED <<heap, arguments, pc, rest, shorthands, err, outcome, argPos, donor>>

VisitAllCall ==
    /\ Idle
    /\ \E r \in {VisitAll(f)} :
           /\ f' = r.f
           /\ api' = After("VisitAll", <<>>, <<>>, ErrNil, r.flags)
    /\ log' = <<>>
    /\ UNCHANGED <<heap, arguments, pc, rest, shorthands, err, outcome, argPos, donor>>

\* The argument vectors Parse is called with.
RegVectors == { <<T_aDc_eq_1, T_aUb_eq_x>>, <<S_x1, T_a, T_dashdash>>, <<T_unk>>, <<>> }

\* The caller hands a vector to Parse; the steps of Parse follow.
ParseCall ==
    /\ Callable
    /\ arguments' \in RegVectors
    /\ pc' = "idle"
    /\ rest' = <<>>
    /\ shorthands' = <<>>
    /\ err' = ErrNil
    /\ outcome' = "none"
    /\ log' = <<>>
    /\ argPos' = <<>>
    /\ api' = After("Parse", <<>>, <<>>, ErrNil, <<>>)
    /\ UNCHANGED <<f, heap, donor>>

\* A flag set after NewFlagSet and some definitions, with the public field
\* SortFlags set either way.
RegInit ==
    /\ \E defs \in RegStarts, sorted \in BOOLEAN,
          errorHandling \in {"ContinueOnError", "ExitOnError", "PanicOnError"} :
           /\ f = [Define(NewFlagSet(errorHandling), Donor.heap, defs).f
                     EXCEPT !.SortFlags = sorted]
           /\ heap = Define(NewFlagSet(errorHandling), Donor.heap, defs).heap
           /\ api = [NoCalls EXCEPT
                        !.added = [i \in 1..Len(defs) |-> Len(Donor.heap) + i]]
    /\ arguments = <<>>
    /\ pc = "done"
    /\ rest = <<>>
    /\ shorthands = <<>>
    /\ err = ErrNil
    /\ outcome = "none"
    /\ log = <<>>
    /\ argPos = <<>>
    /\ donor = Donor.f

RegNext ==
    \/ VarCall
    \/ AddFlagCall
    \/ AddFlagSetCall
    \/ SetNormalizeFuncCall
    \/ SetCall
    \/ GetCall
    \/ VisitCall
    \/ VisitAllCall
    \/ ParseCall
    \/ Parse
    \/ PositionalArg
    \/ Terminator
    \/ LongArg
    \/ ShortArg
    \/ SingleShortArg
    \/ ParseReturn

RegSpec == RegInit /\ [][RegNext]_vars

----------------------------------------------------------------------------
(* Properties.  They read the history: log[k] is the k-th parser step, on   *)
(* the token arguments[log[k].pos]; a step inside a shorthand cluster has   *)
(* the cluster rest it started from in cl, any other step has cl empty.     *)

Done == pc = "done"

NArguments == Len(arguments)

\* The registered flag of a name, of a shorthand rune.
FlagNamed(name) == heap[f.formal[name]]
FlagOfRune(c) == heap[f.shorthands[c]]

\* The one call fn(flag, value) a step made.
Called(name, value) == <<[name |-> name, value |-> value]>>

TokHasEq(t) == \E i \in 1..Len(t) : t[i] = "="

TokFirstEq(t) ==
    CHOOSE i \in 1..Len(t) : t[i] = "=" /\ \A j \in 1..(i - 1) : t[j] # "="

\* A token of the form --name or --name=text.
TokIsLong(t) ==
    /\ Len(t) > 2
    /\ t[1] = "-" /\ t[2] = "-"
    /\ t[3] \notin {"-", "="}

\* The name of a long token, and the text after its first "=".
TokLongName(t) ==
    IF TokHasEq(t) THEN SubSeq(t, 3, TokFirstEq(t) - 1) ELSE SubSeq(t, 3, Len(t))

TokAfterEq(t) == SubSeq(t, TokFirstEq(t) + 1, Len(t))

\* The step e parsed a long token whose name is registered and not
\* shorthand-only.
LongKnownStep(e) ==
    /\ e.cl = <<>>
    /\ TokIsLong(arguments[e.pos])
    /\ TokLongName(arguments[e.pos]) \in DOMAIN f.formal
    /\ ~FlagNamed(TokLongName(arguments[e.pos])).ShorthandOnly

\* The step e decoded a rune bound to a flag.
ShortKnownStep(e) ==
    /\ e.cl # <<>>
    /\ e.cl[1] \in DOMAIN f.shorthands

\* C1: a long token --name[=text] whose name resolves to a registered flag
\* that is not shorthand-only gives Set the text after the first "=" if
\* there is an "=" (even when that text is empty); else the flag's
\* NoOptDefVal if it is not empty, and the next token is not consumed; else
\* the next token, which is consumed and never appears in Args(); else Parse
\* fails with "flag needs an argument" and Set is not called.
C1_LongValue(e) ==
    LET t == arguments[e.pos]
        name == TokLongName(t)
    IN  IF TokHasEq(t)
        THEN /\ e.call = Called(name, TokAfterEq(t))
             /\ e.after = NArguments - e.pos
        ELSE IF FlagNamed(name).NoOptDefVal # <<>>
        THEN /\ e.call = Called(name, FlagNamed(name).NoOptDefVal)
             /\ e.after = NArguments - e.pos
        ELSE IF e.pos < NArguments
        THEN /\ e.call = Called(name, arguments[e.pos + 1])
             /\ e.after = NArguments - e.pos - 1
             /\ (e.pos + 1) \notin Range(argPos)
        ELSE /\ e.call = <<>>
             /\ e.err = ErrNeedsArgument

C1_LongValuePriority ==
    \A k \in 1..Len(log) : LongKnownStep(log[k]) => C1_LongValue(log[k])

\* C1 witness: "--num 5" has given num the next token, which is no
\* positional argument.
C1_Witness ==
    /\ Done
    /\ arguments = <<T_num, T_5>>
    /\ err = ErrNil
    /\ FlagNamed(N_num).Changed
    /\ FlagNamed(N_num).Value.v = 5
    /\ f.args = <<>>

\* C2: a shorthand rune bound to a flag gives Set the text after "=" when
\* "=" follows the rune at once and at least one character follows the "=";
\* else the flag's NoOptDefVal if not empty; else the whole rest of the
\* cluster if any; else the next token, which is consumed; else Parse fails
\* with "flag needs an argument" and Set is not called.
C2_ShortValue(e) ==
    LET sh == e.cl
        flag == FlagOfRune(sh[1])
    IN  IF Len(sh) >= 3 /\ sh[2] = "="
        THEN /\ e.call = Called(flag.Name, SubSeq(sh, 3, Len(sh)))
             /\ e.after = NArguments - e.pos
        ELSE IF flag.NoOptDefVal # <<>>
        THEN /\ e.call = Called(flag.Name, flag.NoOptDefVal)
             /\ e.after = NArguments - e.pos
        ELSE IF Len(sh) > 1
        THEN /\ e.call = Called(flag.Name, Tail(sh))
             /\ e.after = NArguments - e.pos
        ELSE IF e.pos < NArguments
        THEN /\ e.call = Called(flag.Name, arguments[e.pos + 1])
             /\ e.after = NArguments - e.pos - 1
             /\ (e.pos + 1) \notin Range(argPos)
        ELSE /\ e.call = <<>>
             /\ e.err = ErrNeedsArgument

C2_ShortValuePriority ==
    \A k \in 1..Len(log) : ShortKnownStep(log[k]) => C2_ShortValue(log[k])

\* C2 witness: "-n5" has given n the rest of the cluster.
C2_Witness ==
    /\ Done
    /\ arguments = <<S_n5>>
    /\ err = ErrNil
    /\ log[1].call = Called(N_num, <<"5">>)
    /\ FlagNamed(N_num).Value.v = 5

\* The number of tokens the parser has taken off the vector.
Scanned == NArguments - Len(rest)

\* The step log[k] is the first one of its token.
FirstOfToken(k) == IF k = 1 THEN TRUE ELSE log[k - 1].pos # log[k].pos

\* The steps of a cluster take its runes from left to right: the first one
\* starts from the token without its "-", every other one from what the step
\* before it left, and a step that left runes and no error is followed by
\* another one.
C3_LeftToRight(k) ==
    /\ Len(log[k].call) \in {0, 1}
    /\ IF FirstOfToken(k)
       THEN log[k].cl = Tail(arguments[log[k].pos])
       ELSE /\ log[k - 1].err = ErrNil
            /\ log[k].cl = log[k - 1].outShorts
    /\ (k = Len(log) /\ log[k].err = ErrNil /\ log[k].outShorts # <<>>)
           => pc = "short" /\ shorthands = log[k].outShorts /\ Scanned = log[k].pos
    /\ (k = Len(log) /\ (log[k].err # ErrNil \/ log[k].outShorts = <<>>))
           => ~(pc = "short" /\ Scanned = log[k].pos)

\* What C3 says of a flag in a cluster, as stated: NoOptDefVal if not empty,
\* and decoding goes on with the next rune; else the rest of the cluster or,
\* for the last rune, the next token, and the cluster ends.
C3_AsStated(e) ==
    LET sh == e.cl
        flag == FlagOfRune(sh[1])
    IN  IF flag.NoOptDefVal # <<>>
        THEN /\ e.call = Called(flag.Name, flag.NoOptDefVal)
             /\ e.outShorts = Tail(sh)
        ELSE IF Len(sh) > 1
        THEN /\ e.call = Called(flag.Name, Tail(sh))
             /\ e.outShorts = <<>>
        ELSE IF e.pos < NArguments
        THEN /\ e.call = Called(flag.Name, arguments[e.pos + 1])
             /\ e.outShorts = <<>>
        ELSE e.outShorts = <<>>

\* The same with the case C3 leaves out: a rune followed at once by "=" and
\* at least one more character takes the text after the "=" and ends the
\* cluster, with or without NoOptDefVal.
C3_Amended(e) ==
    IF Len(e.cl) >= 3 /\ e.cl[2] = "="
    THEN /\ e.call = Called(FlagOfRune(e.cl[1]).Name, SubSeq(e.cl, 3, Len(e.cl)))
         /\ e.outShorts = <<>>
    ELSE C3_AsStated(e)

\* The examples of C3, with bool v, int n and counter c.
C3_Examples ==
    /\ (Done /\ arguments \in {<<S_vn, T_5>>, <<S_vn5>>})
           => /\ err = ErrNil
              /\ FlagNamed(N_verb).Value.v = TRUE
              /\ FlagNamed(N_num).Value.v = 5
              /\ f.orderedActual = <<f.formal[N_verb], f.formal[N_num]>>
              /\ f.args = <<>>
    /\ (Done /\ arguments = <<S_ccc>>)
           => /\ err = ErrNil
              /\ Len(log) = 3
              /\ FlagNamed(N_cnt).Value.v = 3
    /\ (Done /\ arguments = <<S_nv5>>)
           => /\ err = ErrInvalidArgument
              /\ log = <<[pos |-> 1, cl |-> <<"n", "v", "5">>,
                          call |-> Called(N_num, <<"v", "5">>), after |-> 0,
                          outShorts |-> <<>>, err |-> ErrInvalidArgument]>>
              /\ ~FlagNamed(N_verb).Changed

\* C3 as stated (violated: "-v=0" gives v the text "0" and ends the cluster,
\* "-n=5" gives n the text "5"): the runes of a cluster are decoded left to
\* right with one Set per flag in that order; a flag with NoOptDefVal takes
\* it and decoding continues; a flag without takes the rest of the cluster
\* or the next token and ends the cluster.
C3_ClusterOrderAsStated ==
    \A k \in 1..Len(log) :
        log[k].cl # <<>> =>
            /\ C3_LeftToRight(k)
            /\ ShortKnownStep(log[k]) => C3_AsStated(log[k])

\* C3, amended: the runes of a cluster are decoded left to right with one
\* Set per flag in that order; a rune followed at once by "=" and at least
\* one character takes the text after "=" and ends the cluster; else a flag
\* with NoOptDefVal takes it and decoding continues with the next rune; else
\* the flag takes the rest of the cluster or, as the last rune, the next
\* token, and ends the cluster.  So "-vn 5" and "-vn5" give v=true, n=5 and
\* no positional argument, "-ccc" counts to three, and "-nv5" fails with n
\* given "v5" and v not set.
C3_ClusterOrder ==
    /\ \A k \in 1..Len(log) :
           log[k].cl # <<>> =>
               /\ C3_LeftToRight(k)
               /\ ShortKnownStep(log[k]) => C3_Amended(log[k])
    /\ C3_Examples

\* C3 witness: "-vn5" has set v and then n from one cluster.
C3_Witness ==
    /\ Done
    /\ arguments = <<S_vn5>>
    /\ Len(log) = 2
    /\ log[1].call = Called(N_verb, N_true)
    /\ log[2].call = Called(N_num, <<"5">>)
    /\ FlagNamed(N_verb).Value.v = TRUE
    /\ FlagNamed(N_num).Value.v = 5

\* The step e met the terminator.
TerminatorStep(e) == e.cl = <<>> /\ arguments[e.pos] = <<"-", "-">>

\* The indices below p among those of the positional arguments.
CollectedBefore(p) == SelectSeq(argPos, LAMBDA i : i < p)

\* The indices from a to b in order.
Indices(a, b) == [i \in 1..(b - a + 1) |-> a + i - 1]

\* Args() is the tokens at the indices argPos.
ArgsAreTokens ==
    /\ Len(f.args) = Len(argPos)
    /\ \A i \in 1..Len(argPos) : f.args[i] = arguments[argPos[i]]

\* C4: on the token "--" Parse sets ArgsLenAtDash() to the number of
\* positional arguments collected so far, appends every remaining token
\* unchanged and in order to Args(), and stops: no later token sets a flag,
\* is recorded as unknown or raises an error.  ["--", "--num", "a"] gives
\* NFlag() = 0, Args() = ["--num", "a"] and ArgsLenAtDash() = 0.  Without a
\* "--" ArgsLenAtDash() is -1.
C4_Terminator ==
    /\ \A k \in 1..Len(log) :
           TerminatorStep(log[k]) =>
               /\ k = Len(log)
               /\ pc \in {"ret", "done"}
               /\ err = ErrNil
               /\ f.argsLenAtDash = Len(CollectedBefore(log[k].pos))
               /\ argPos = CollectedBefore(log[k].pos)
                             \o Indices(log[k].pos + 1, NArguments)
               /\ ArgsAreTokens
    /\ (Done /\ arguments = <<T_dashdash, T_num, T_a>>)
           => /\ Cardinality(DOMAIN f.actual) = 0
              /\ f.args = <<T_num, T_a>>
              /\ f.argsLenAtDash = 0
              /\ f.unknownFlags = <<>>
    /\ (\A k \in 1..Len(log) : ~TerminatorStep(log[k])) => f.argsLenAtDash = -1

\* C4 witness: "a -- -v" has ended with one positional argument before the
\* terminator and the "-v" after it collected.
C4_Witness ==
    /\ Done
    /\ arguments = <<T_a, T_dashdash, S_v>>
    /\ f.argsLenAtDash = 1
    /\ f.args = <<T_a, S_v>>
    /\ ~FlagNamed(N_verb).Changed

\* A token that is empty, "-" or does not start with "-".
TokIsPositional(t) == t = <<>> \/ t = <<"-">> \/ (t # <<>> /\ t[1] # "-")

\* The step e met a positional token.
PositionalStep(e) == e.cl = <<>> /\ TokIsPositional(arguments[e.pos])

\* C5: a token that is empty, "-" or does not start with "-" is positional.
\* With interspersed mode it is appended to Args() and scanning continues
\* with the next token, so later flags are parsed; without, it and every
\* token after it are appended to Args() unchanged and scanning stops, so no
\* later token sets a flag or raises an error.
C5_Positional ==
    /\ \A k \in 1..Len(log) :
           PositionalStep(log[k]) =>
               /\ log[k].err = ErrNil
               /\ log[k].call = <<>>
               /\ ArgsAreTokens
               /\ IF f.interspersed
                  THEN /\ Len(SelectSeq(argPos, LAMBDA i : i = log[k].pos)) = 1
                       /\ log[k].after = NArguments - log[k].pos
                       /\ k < Len(log) => log[k + 1].pos = log[k].pos + 1
                       /\ (k = Len(log) /\ log[k].pos < NArguments)
                              => \/ pc = "scan" /\ Scanned = log[k].pos
                                 \/ pc = "short" /\ Scanned = log[k].pos + 1
                  ELSE /\ k = Len(log)
                       /\ pc \in {"ret", "done"}
                       /\ err = ErrNil
                       /\ argPos = CollectedBefore(log[k].pos)
                                     \o Indices(log[k].pos, NArguments)
    /\ (Done /\ arguments = <<T_a, S_v>> /\ f.interspersed)
           => FlagNamed(N_verb).Value.v = TRUE /\ f.args = <<T_a>>

\* C5 witness: without interspersed mode "a -v --verb" has ended with the
\* three tokens in Args() and v not set.
C5_Witness ==
    /\ Done
    /\ ~f.interspersed
    /\ arguments = <<T_a, S_v, T_verb>>
    /\ f.args = <<T_a, S_v, T_verb>>
    /\ err = ErrNil
    /\ ~FlagNamed(N_verb).Changed

\* The step e parsed a long token whose name is not registered; a step that
\* decoded a rune bound to no flag.
UnknownLongStep(e) ==
    /\ e.cl = <<>>
    /\ TokIsLong(arguments[e.pos])
    /\ TokLongName(arguments[e.pos]) \notin DOMAIN f.formal

UnknownRuneStep(e) == e.cl # <<>> /\ e.cl[1] \notin DOMAIN f.shorthands

\* Such a step that asks for the built-in help.
HelpLongStep(e) ==
    /\ UnknownLongStep(e)
    /\ TokLongName(arguments[e.pos]) = <<"h", "e", "l", "p">>
    /\ ~f.DisableBuiltinHelp

HelpRuneStep(e) == UnknownRuneStep(e) /\ e.cl[1] = "h" /\ ~f.DisableBuiltinHelp

\* Parse has stopped at the step log[k] with the error x.
StoppedAt(k, x) ==
    /\ k = Len(log)
    /\ pc \in {"ret", "done"}
    /\ log[k].err = x
    /\ err = x
    /\ log[k].call = <<>>

\* Every call before the step log[k] that succeeded has left its flag set.
EarlierStay(k) ==
    \A j \in 1..(k - 1) :
        (log[j].call # <<>> /\ log[j].err = ErrNil)
            => /\ FlagNamed(log[j].call[1].name).Changed
               /\ log[j].call[1].name \in DOMAIN f.actual

\* C6: with UnknownFlags false, the first token that names an unregistered
\* long flag (other than the built-in help) or an unbound shorthand rune
\* makes Parse fail with an unknown-flag error at that token: the flags set
\* by earlier tokens stay set, and no later token is processed (none sets a
\* flag, none is appended to Args()).
C6_UnknownFails ==
    ~f.UnknownFlags =>
        /\ \A k \in 1..Len(log) :
               /\ (UnknownLongStep(log[k]) /\ ~HelpLongStep(log[k]))
                      => StoppedAt(k, ErrUnknownFlag)
               /\ (UnknownRuneStep(log[k]) /\ ~HelpRuneStep(log[k]))
                      => StoppedAt(k, ErrUnknownShorthand)
               /\ log[k].err \in {ErrUnknownFlag, ErrUnknownShorthand}
                      => /\ EarlierStay(k)
                         /\ \A i \in 1..Len(argPos) : argPos[i] < log[k].pos
                         /\ ArgsAreTokens
                         /\ f.unknownFlags = <<>>
        /\ (Done /\ arguments = <<T_num_eq_5, T_unk, T_a>>)
               => /\ err = ErrUnknownFlag
                  /\ FlagNamed(N_num).Changed
                  /\ FlagNamed(N_num).Value.v = 5
                  /\ f.args = <<>>

\* C6 witness: "--num=5 --unk a" has failed at "--unk" with num left at 5
\* and "a" not collected.
C6_Witness ==
    /\ Done
    /\ ~f.UnknownFlags
    /\ arguments = <<T_num_eq_5, T_unk, T_a>>
    /\ err = ErrUnknownFlag
    /\ Len(log) = 2
    /\ FlagNamed(N_num).Value.v = 5
    /\ f.args = <<>>

\* A token follows the step e and does not start with "-".
ValueFollows(e) ==
    /\ e.pos < NArguments
    /\ ~(arguments[e.pos + 1] # <<>> /\ arguments[e.pos + 1][1] = "-")

\* The step e met an unknown --name without "=", or an unknown -x of one
\* rune.
BareUnknownStep(e) ==
    \/ UnknownLongStep(e) /\ ~HelpLongStep(e) /\ ~TokHasEq(arguments[e.pos])
    \/ UnknownRuneStep(e) /\ ~HelpRuneStep(e) /\ Len(arguments[e.pos]) = 2

\* The step e met an unknown --name=value.
EqUnknownStep(e) ==
    UnknownLongStep(e) /\ ~HelpLongStep(e) /\ TokHasEq(arguments[e.pos])

\* After the step log[k], which left no error, parsing goes on with the
\* first token the step left.
GoesOn(k) ==
    /\ log[k].err = ErrNil
    /\ k < Len(log) => log[k + 1].pos = NArguments - log[k].after + 1
    /\ (k = Len(log) /\ log[k].after > 0)
           => \/ pc = "scan" /\ Len(rest) = log[k].after
              \/ pc = "short" /\ Len(rest) = log[k].after - 1

\* C7: with UnknownFlags true, after an unknown --name without "=" or an
\* unknown -x of one rune Parse consumes exactly one following token if and
\* only if one follows and does not start with "-"; after an unknown
\* --name=value it consumes none.  Parsing continues with the next token not
\* consumed, so a later known flag is set, and the consumed token never
\* reaches Args().
C7_UnknownValue ==
    f.UnknownFlags =>
        /\ \A k \in 1..Len(log) :
               /\ BareUnknownStep(log[k])
                      => /\ log[k].call = <<>>
                         /\ log[k].after = NArguments - log[k].pos
                                - (IF ValueFollows(log[k]) THEN 1 ELSE 0)
                         /\ ValueFollows(log[k]) => (log[k].pos + 1) \notin Range(argPos)
                         /\ GoesOn(k)
               /\ EqUnknownStep(log[k])
                      => /\ log[k].call = <<>>
                         /\ log[k].after = NArguments - log[k].pos
                         /\ GoesOn(k)
        /\ ArgsAreTokens
        /\ (Done /\ arguments \in {<<T_unk, T_a, T_num_eq_5>>, <<S_x, T_a, T_num_eq_5>>})
               => /\ err = ErrNil
                  /\ FlagNamed(N_num).Value.v = 5
                  /\ f.args = <<>>

\* C7 witness: "--unk a --num=5" has ended with num at 5 and no positional
\* argument.
C7_Witness ==
    /\ Done
    /\ f.UnknownFlags
    /\ arguments = <<T_unk, T_a, T_num_eq_5>>
    /\ err = ErrNil
    /\ FlagNamed(N_num).Value.v = 5
    /\ f.args = <<>>

\* The steps so far that met an unknown flag and went on.
RecordedSteps ==
    {k \in 1..Len(log) :
        /\ log[k].err = ErrNil
        /\ \/ UnknownLongStep(log[k]) /\ ~HelpLongStep(log[k])
           \/ UnknownRuneStep(log[k]) /\ ~HelpRuneStep(log[k])}

\* C8: with UnknownFlags true, GetUnknownFlags() holds one entry for each
\* unknown flag met, in order, and nothing else: the value token consumed
\* after an unknown flag is in neither GetUnknownFlags() nor Args().  For
\* ["--unk", "a", "--num=5"] the list is the one entry "--unk", "a" is in
\* neither list and num is 5.
C8_UnknownList ==
    f.UnknownFlags =>
        /\ Len(f.unknownFlags) = Cardinality(RecordedSteps)
        /\ \A i \in 1..Len(f.unknownFlags) :
               f.unknownFlags[i] # <<>> /\ f.unknownFlags[i][1] = "-"
        /\ (Done /\ arguments = <<T_unk, T_a, T_num_eq_5>>)
               => /\ f.unknownFlags = <<T_unk>>
                  /\ f.args = <<>>
                  /\ FlagNamed(N_num).Value.v = 5

\* C8, what the code does: "--unk a --num=5" ends with the consumed value
\* "a" in GetUnknownFlags().
C8_Witness ==
    /\ Done
    /\ f.UnknownFlags
    /\ arguments = <<T_unk, T_a, T_num_eq_5>>
    /\ f.unknownFlags = <<T_unk, T_a>>
    /\ f.args = <<>>
    /\ FlagNamed(N_num).Value.v = 5

\* C9: with UnknownFlags true, a shorthand token whose first rune is unbound
\* and that packs more than one character is recorded whole as one unknown
\* entry, none of its other characters is decoded, and no following token is
\* consumed.
C9_PackedUnknown ==
    f.UnknownFlags =>
        \A k \in 1..Len(log) :
            (/\ UnknownRuneStep(log[k])
             /\ ~HelpRuneStep(log[k])
             /\ FirstOfToken(k)
             /\ Len(log[k].cl) > 1)
                => /\ log[k].err = ErrNil
                   /\ log[k].outShorts = <<>>
                   /\ log[k].after = NArguments - log[k].pos
                   /\ arguments[log[k].pos] \in Range(f.unknownFlags)
                   /\ k < Len(log) => log[k + 1].pos > log[k].pos

\* C9, what the code does: "-xy" ends with the two entries "-x" and "-y".
C9_Witness ==
    /\ Done
    /\ f.UnknownFlags
    /\ arguments = <<S_xy>>
    /\ Len(log) = 2
    /\ f.unknownFlags = <<<<"-", "x">>, <<"-", "y">>>>

\* The step e met --help[=text] with a flag named help registered, -h with a
\* flag bound to h.
HelpFlagLongStep(e) ==
    /\ e.cl = <<>>
    /\ TokIsLong(arguments[e.pos])
    /\ TokLongName(arguments[e.pos]) = <<"h", "e", "l", "p">>
    /\ <<"h", "e", "l", "p">> \in DOMAIN f.formal

HelpFlagRuneStep(e) == e.cl # <<>> /\ e.cl[1] = "h" /\ "h" \in DOMAIN f.shorthands

\* The step log[k] treated its unknown flag as any other: refused without
\* the allowlist, recorded with it.
AsAnyUnknown(k, x, entries) ==
    IF f.UnknownFlags
    THEN /\ log[k].err = ErrNil
         /\ \E u \in entries : u \in Range(f.unknownFlags)
    ELSE StoppedAt(k, x)

\* C10: with no flag named help and DisableBuiltinHelp false a --help token
\* makes Parse stop with ErrHelp, and so does a -h rune with no flag bound
\* to h, also with the allowlist: the token is not recorded as unknown.  A
\* registered help or h is parsed as an ordinary flag, and with
\* DisableBuiltinHelp true the token is handled as any other unknown flag.
C10_BuiltinHelp ==
    \A k \in 1..Len(log) :
        /\ HelpLongStep(log[k])
               => /\ StoppedAt(k, ErrHelp)
                  /\ arguments[log[k].pos] \notin Range(f.unknownFlags)
        /\ HelpRuneStep(log[k])
               => /\ StoppedAt(k, ErrHelp)
                  /\ arguments[log[k].pos] \notin Range(f.unknownFlags)
                  /\ <<"-", "h">> \notin Range(f.unknownFlags)
        /\ HelpFlagLongStep(log[k])
               => /\ log[k].call # <<>>
                  /\ log[k].call[1].name = <<"h", "e", "l", "p">>
                  /\ log[k].err \in {ErrNil, ErrInvalidArgument}
        /\ HelpFlagRuneStep(log[k])
               => /\ log[k].call # <<>>
                  /\ log[k].call[1].name = FlagOfRune("h").Name
                  /\ log[k].err \in {ErrNil, ErrInvalidArgument}
        /\ (UnknownLongStep(log[k]) /\ f.DisableBuiltinHelp)
               => AsAnyUnknown(k, ErrUnknownFlag, {arguments[log[k].pos]})
        /\ (UnknownRuneStep(log[k]) /\ f.DisableBuiltinHelp)
               => AsAnyUnknown(k, ErrUnknownShorthand,
                               {arguments[log[k].pos], <<"-", log[k].cl[1]>>})

\* C10 witness: with the allowlist and no help flag "--num=5 --help a" has
\* stopped at "--help" with ErrHelp and recorded nothing.
C10_Witness ==
    /\ Done
    /\ f.UnknownFlags
    /\ ~f.DisableBuiltinHelp
    /\ <<"h", "e", "l", "p">> \notin DOMAIN f.formal
    /\ arguments = <<T_num_eq_5, T_help, T_a>>
    /\ err = ErrHelp
    /\ outcome = "returned"
    /\ f.unknownFlags = <<>>
    /\ f.args = <<>>

\* The texts the flag named name was given by the calls so far that
\* succeeded, in order.
TextsGiven(name) ==
    LET given == SelectSeq(log, LAMBDA e : /\ e.call # <<>>
                                           /\ e.err = ErrNil
                                           /\ e.call[1].name = name)
    IN  [i \in 1..Len(given) |-> given[i].call[1].value]

\* The elements one occurrence with the text s gives a list flag.
ElementsOf(type, s) ==
    IF type = "intSlice"
    THEN [i \in 1..Len(SplitComma(s)) |-> Atoi(SplitComma(s)[i]).v]
    ELSE <<s>>

RECURSIVE ListOfAll(_, _)
\* L1 ++ ... ++ Lk for the texts of k occurrences.
ListOfAll(type, texts) ==
    IF texts = <<>> THEN <<>>
    ELSE ElementsOf(type, Head(texts)) \o ListOfAll(type, Tail(texts))

RECURSIVE MapOfAll(_, _)
\* The key-wise merge of the maps of the texts after acc, later ones
\* winning.
MapOfAll(texts, acc) ==
    IF texts = <<>> THEN acc
    ELSE MapOfAll(Tail(texts), PairsToMap(PairsOf(Head(texts)), acc))

\* The value of a flag of several values after occurrences with the texts:
\* the default d with none.
ValueOfAll(type, d, texts) ==
    IF texts = <<>> THEN d
    ELSE IF type = "stringToString" THEN MapOfAll(texts, [k \in {} |-> <<>>])
    ELSE ListOfAll(type, texts)

\* The default the model registers a flag of several values with.
DefaultOf(type) ==
    CASE type = "intSlice" -> <<7>>
      [] type = "stringArray" -> << <<"d">> >>
      [] type = "stringToString" -> [k \in {<<"k">>, <<"a">>} |-> <<"0">>]

\* C11 on the flags of the types in types.
C11_On(types) ==
    \A id \in 1..Len(heap) :
        heap[id].Value.type \in types =>
            heap[id].Value.v = ValueOfAll(heap[id].Value.type,
                                          DefaultOf(heap[id].Value.type),
                                          TextsGiven(heap[id].Name))

\* C11: for every flag of several values registered with a default D, after
\* k >= 1 occurrences with the element lists L1..Lk a list flag holds
\* L1 ++ ... ++ Lk with no element of D, a map flag holds the merge of the k
\* maps with later occurrences winning and no key of D; with no occurrence
\* the value is D.
C11_MultiValued == C11_On({"intSlice", "stringArray", "stringToString"})

\* C11, what the code does: the one occurrence "--sa=" of a string array
\* flag leaves the default in place.
C11_Witness ==
    /\ Done
    /\ arguments = <<M_sa_eq>>
    /\ err = ErrNil
    /\ log[1].call = Called(N_sa, <<>>)
    /\ FlagNamed(N_sa).Value.v = << <<"d">> >>

\* The steps so far that called Set for the flag named name.
StepsOf(name) ==
    SelectSeq(log, LAMBDA e : e.call # <<>> /\ e.call[1].name = name)

\* The occurrence of step e carried an explicit value: --name=text, or a
\* rune followed at once by "=" and a text.
ExplicitStep(e) ==
    IF e.cl = <<>> THEN TokHasEq(arguments[e.pos])
    ELSE Len(e.cl) >= 3 /\ e.cl[2] = "="

RECURSIVE CountOf(_, _)
\* N + m after the occurrences es, counted on from acc: an explicit value
\* sets the count, a valueless occurrence adds one.
CountOf(es, acc) ==
    IF es = <<>> THEN acc
    ELSE CountOf(Tail(es), IF ExplicitStep(Head(es))
                           THEN ParseInt(Head(es).call[1].value).v
                           ELSE acc + 1)

\* C12: a counter flag (NoOptDefVal "+1", initial value 0) holds N + m after
\* any sequence of its occurrences, N the integer of the last occurrence
\* with an explicit value (0 if none) and m the number of valueless
\* occurrences after it, written --name, -c or as runes of one cluster:
\* -ccc is 3, -c -c -c is 3, -c=3 -c is 4, --cnt=0 is 0.  An explicit value
\* that is no integer makes Parse fail.
C12_Counter ==
    N_cnt \in DOMAIN f.formal =>
        /\ (\A i \in 1..Len(StepsOf(N_cnt)) : StepsOf(N_cnt)[i].err = ErrNil)
               => FlagNamed(N_cnt).Value.v = CountOf(StepsOf(N_cnt), 0)
        /\ \A k \in 1..Len(log) :
               (/\ log[k].call # <<>>
                /\ log[k].call[1].name = N_cnt
                /\ ExplicitStep(log[k])
                /\ ~ParseInt(log[k].call[1].value).ok)
                   => StoppedAt(k, ErrInvalidArgument) \/ log[k].err = ErrInvalidArgument
        /\ (Done /\ arguments \in {<<S_ccc>>, <<S_c, S_c, S_c>>})
               => FlagNamed(N_cnt).Value.v = 3
        /\ (Done /\ arguments = <<S_c_eq_3, S_c>>) => FlagNamed(N_cnt).Value.v = 4
        /\ (Done /\ arguments = <<T_cnt_eq_0>>) => FlagNamed(N_cnt).Value.v = 0

\* C12, what the code does: after "-c -c --cnt=+1" the counter is 3, the
\* explicit value +1 taken for a valueless occurrence.
C12_Witness ==
    /\ Done
    /\ arguments = <<S_c, S_c, T_cnt_eq_plus1>>
    /\ err = ErrNil
    /\ FlagNamed(N_cnt).Value.v = 3

\* The value one occurrence with the text s alone gives a scalar flag.
ScalarOf(type, s) ==
    CASE type = "bool" -> ParseBool(s).v
      [] type = "int" -> ParseInt(s).v
      [] type = "string" -> s

\* The text of the last Set call for the flag named name.
LastText(name) == StepsOf(name)[Len(StepsOf(name))].call[1].value

\* C13: a scalar flag (bool, int, string) that occurs several times in one
\* vector, every occurrence parsed with success, ends with the value of the
\* last occurrence alone: nothing of the earlier ones is kept and nothing is
\* appended ("--verb" then "--verb=0" ends with false).
C13_ScalarLastWins ==
    /\ \A id \in 1..Len(heap) :
           (/\ heap[id].Value.type \in {"bool", "int", "string"}
            /\ StepsOf(heap[id].Name) # <<>>
            /\ \A i \in 1..Len(StepsOf(heap[id].Name)) :
                   StepsOf(heap[id].Name)[i].err = ErrNil)
               => heap[id].Value.v = ScalarOf(heap[id].Value.type, LastText(heap[id].Name))
    /\ (Done /\ arguments = <<T_verb, T_verb_eq_0>>)
           => FlagNamed(N_verb).Value.v = FALSE

\* C13 witness: "--str 5 --str=" has ended, the text flag set twice and
\* holding the empty text of its last occurrence.
C13_Witness ==
    /\ Done
    /\ arguments = <<T_str, T_5, T_str_eq>>
    /\ err = ErrNil
    /\ Len(StepsOf(N_str)) = 2
    /\ StepsOf(N_str)[1].call = Called(N_str, T_5)
    /\ FlagNamed(N_str).Value.v = <<>>

\* C20: the outcome of a Parse that fails depends on the error handling
\* policy of the flag set alone: ContinueOnError returns the error,
\* ExitOnError exits with status 2, with status 0 on ErrHelp, PanicOnError
\* panics.  A Parse without failure returns nil under every policy, and
\* Parsed() is true once Parse was called.
C20_ErrorHandling ==
    /\ Done =>
           /\ err = ErrNil => outcome = "returned"
           /\ (err # ErrNil /\ f.errorHandling = "ContinueOnError") => outcome = "returned"
           /\ (err # ErrNil /\ f.errorHandling = "ExitOnError")
                  => outcome = IF err = ErrHelp THEN "exit0" ELSE "exit2"
           /\ (err # ErrNil /\ f.errorHandling = "PanicOnError") => outcome = "panic"
    /\ pc # "idle" => f.parsed

\* C20 witness: under ExitOnError "--num=5 --help" has ended in a help
\* request, after num was set.
C20_Witness ==
    /\ Done
    /\ f.errorHandling = "ExitOnError"
    /\ arguments = <<T_num_eq_5, T_help>>
    /\ err = ErrHelp
    /\ outcome = "exit0"
    /\ f.parsed
    /\ FlagNamed(N_num).Changed

----------------------------------------------------------------------------
(* Properties of the API calls.  api holds the last call; a step of a call  *)
(* that registers, renames or sets is one that adds 1 to api.n.             *)

\* The step is a call of one of the operations ops that registers, renames
\* or sets.
Step(ops) == api'.n = api.n + 1 /\ api'.op \in ops

\* C14: Var or AddFlag with a flag whose normalized name is registered
\* panics, and Lookup of the name still returns the flag registered first,
\* its Value as it was; with a flag whose shorthand rune is bound it panics,
\* and ShorthandLookup of the rune still returns the flag bound first.
C14_DuplicatePanics ==
    [][Step({"Var", "AddFlag"}) =>
          /\ Lookup(f, api'.name) # 0 =>
                 /\ api'.err = ErrPanic
                 /\ Lookup(f', api'.name) = Lookup(f, api'.name)
                 /\ heap'[Lookup(f, api'.name)].Value = heap[Lookup(f, api'.name)].Value
          /\ ShorthandLookup(f, api'.value) # 0 =>
                 /\ api'.err = ErrPanic
                 /\ ShorthandLookup(f', api'.value) = ShorthandLookup(f, api'.value)]_vars

\* C14 witness: Var with the name a_b has panicked; a_b is still the flag
\* with shorthand x that was set to the text 1 before.
C14_Witness ==
    /\ api.op = "Var"
    /\ api.name = N_aUb
    /\ api.err = ErrPanic
    /\ Lookup(f, N_aUb) # 0
    /\ Lookup(f, N_aUb) # api.got
    /\ heap[Lookup(f, N_aUb)].Value.type = "string"
    /\ heap[Lookup(f, N_aUb)].Value.v = <<"1">>
    /\ ShorthandLookup(f, "x") = Lookup(f, N_aUb)

\* C15: in every state of a flag set, every flag in the shorthand index is
\* in the name index under the key that is the normalization of its current
\* Name, and no flag is bound to two name keys or to two shorthand runes.
C15_Indexes ==
    /\ \A c \in DOMAIN f.shorthands :
           /\ normalizeFlagName(f, heap[f.shorthands[c]].Name) \in DOMAIN f.formal
           /\ f.formal[normalizeFlagName(f, heap[f.shorthands[c]].Name)] = f.shorthands[c]
    /\ \A k1, k2 \in DOMAIN f.formal : f.formal[k1] = f.formal[k2] => k1 = k2
    /\ \A c1, c2 \in DOMAIN f.shorthands : f.shorthands[c1] = f.shorthands[c2] => c1 = c2

\* C15, what the code does: after SetNormalizeFunc(wordSepNormalizeFunc) on
\* a flag set with the flags a-b and a_b, the flag bound to the rune x is no
\* longer in the name index: the key a.b holds the other flag.
C15_Witness ==
    /\ api.op = "SetNormalizeFunc"
    /\ api.value = "wordSepNormalizeFunc"
    /\ api.n = 1
    /\ ShorthandLookup(f, "x") # 0
    /\ heap[ShorthandLookup(f, "x")].Name = N_aPb
    /\ Lookup(f, N_aPb) # ShorthandLookup(f, "x")

\* The elements of the sequence s are pairwise distinct.
NoRepeat(s) == \A i, j \in 1..Len(s) : s[i] = s[j] => i = j

\* C16: Set enters a flag into the collection of the set flags on its first
\* successful call only.  After any sequence of Set and Parse calls on the
\* registered flags, Visit visits each flag at most once, NFlag() is the number of
\* flags with at least one successful Set, and with SortFlags false the
\* visiting order is the order of the flags' first successful Set.
C16_SetOnce ==
    ~api.renamed =>
        /\ NoRepeat(Visit(f).flags)
        /\ Range(Visit(f).flags) = Range(FirstSetsNow)
        /\ NFlag(f) = Len(FirstSetsNow)
        /\ ~f.SortFlags => Visit(f).flags = FirstSetsNow

\* C16 witness: a_b, a-c and again a_b were set with success; two flags are
\* set, a_b visited first.
C16_Witness ==
    /\ ~f.SortFlags
    /\ api.op = "Set"
    /\ api.name = N_aUb
    /\ api.err = ErrNil
    /\ api.n = 3
    /\ ~api.renamed
    /\ Len(api.firstSets) = 2
    /\ api.firstSets[1] = Lookup(f, N_aUb)
    /\ api.firstSets[2] = Lookup(f, N_aDc)
    /\ NFlag(f) = 2

\* The step is a call of Get or of a typed getter, or one that leaves the
\* state such a call led to as it is.
GetStep == api'.op = "Get"

\* C17: under every error handling policy the accessors return their
\* failures as errors.  Set and Get, GetInt, GetString with a name that is
\* not registered return an error and change nothing; a typed getter on a
\* flag of another type returns the type error and the zero value of the
\* type asked for.
C17_AccessorErrors ==
    [][/\ (Step({"Set"}) /\ Lookup(f, api'.name) = 0) =>
              /\ api'.err = ErrUnknownFlag
              /\ <<f, heap, pc, outcome>>' = <<f, heap, pc, outcome>>
       /\ (GetStep /\ Lookup(f, api'.name) = 0) =>
              /\ api'.err = ErrNotDefined
              /\ api'.got = IF api'.value = "" THEN Nil ELSE Zero(api'.value)
              /\ <<f, heap, pc, outcome>>' = <<f, heap, pc, outcome>>
       /\ (/\ GetStep
           /\ Lookup(f, api'.name) # 0
           /\ api'.value # ""
           /\ heap[Lookup(f, api'.name)].Value.type # api'.value) =>
              /\ api'.err = ErrWrongType
              /\ api'.got = Zero(api'.value)
              /\ <<f, heap, pc, outcome>>' = <<f, heap, pc, outcome>>]_vars

\* C17 witness: on a flag set built with PanicOnError, GetInt on the string
\* flag a_b, set to the text 1, has returned the type error and 0.
C17_Witness ==
    /\ f.errorHandling = "PanicOnError"
    /\ api.op = "Get"
    /\ api.name = N_aUb
    /\ api.value = "int"
    /\ api.err = ErrWrongType
    /\ api.got = 0
    /\ heap[Lookup(f, N_aUb)].Value.type = "string"
    /\ heap[Lookup(f, N_aUb)].Value.v = <<"1">>
    /\ outcome = "none"

\* Set(n, value) on the flag set fs assigns the flag at heap address id and
\* no other.
SetAssigns(fs, hp, n, value, id) ==
    /\ Set(fs, hp, n, value).err = ErrNil
    /\ Set(fs, hp, n, value).heap[id].Changed
    /\ Set(fs, hp, n, value).heap[id].Value = ValueSet(hp[id].Value, value).val
    /\ \A j \in 1..Len(hp) : j # id => Set(fs, hp, n, value).heap[j] = hp[j]

\* C18: SetNormalizeFunc(fn) on a flag set with registered flags, some of
\* them set, renames and re-keys them at once: for every flag F registered
\* before and every name n with fn(n) = fn(name of F), Lookup(n) returns F,
\* Changed(n) is what F's Changed was, Set(n, v) assigns F, and the numbers
\* of registered flags and of set flags are as before.
C18_Renormalized ==
    [][Step({"SetNormalizeFunc"}) =>
          /\ Cardinality(DOMAIN f'.formal) = Cardinality(DOMAIN f.formal)
          /\ NFlag(f') = NFlag(f)
          /\ \A k \in DOMAIN f.formal : \A n \in RegNames :
                 normalizeFlagName(f', n) = normalizeFlagName(f', heap[f.formal[k]].Name) =>
                     /\ Lookup(f', n) = f.formal[k]
                     /\ Changed(f', heap', n) = heap[f.formal[k]].Changed
                     /\ SetAssigns(f', heap', n, <<"1">>, f.formal[k])]_vars

\* C18, what the code does: after SetNormalizeFunc(aliasNormalizeFunc) on a
\* flag set with the flags a_b and a-c one flag is registered, not two, and
\* Lookup(a_b) returns the flag that was a-c.
C18_Witness ==
    /\ api.op = "SetNormalizeFunc"
    /\ api.value = "aliasNormalizeFunc"
    /\ api.n = 1
    /\ Len(api.added) = 2
    /\ Cardinality(DOMAIN f.formal) = 1
    /\ Lookup(f, N_aUb) = ShorthandLookup(f, "y")
    /\ ShorthandLookup(f, "x") # Lookup(f, N_aUb)
    /\ heap[ShorthandLookup(f, "x")].Name = N_aUb

\* The flags ids are in ascending order of their current normalized names.
Ascending(ids) ==
    \A i, j \in 1..Len(ids) :
        i < j => StringLess(normalizeFlagName(f, heap[ids[i]].Name),
                            normalizeFlagName(f, heap[ids[j]].Name))

\* C19: VisitAll visits every registered flag once and Visit every set flag
\* once; with SortFlags in ascending order of the current normalized names,
\* without it in the order of registration and of the first Set.  This holds
\* for every call, whatever registrations, Sets, SetNormalizeFunc calls and
\* earlier visits came before it.
C19_Visiting ==
    /\ api.op = "VisitAll" =>
           /\ NoRepeat(api.got)
           /\ Range(api.got) = Range(api.added)
           /\ f.SortFlags => Ascending(api.got)
           /\ ~f.SortFlags => api.got = api.added
    /\ api.op = "Visit" =>
           /\ NoRepeat(api.got)
           /\ Range(api.got) = Range(api.firstSets)
           /\ f.SortFlags => Ascending(api.got)
           /\ ~f.SortFlags => api.got = api.firstSets

\* C19, what the code does: a_b and a-c were set and visited, then
\* SetNormalizeFunc(wordSepNormalizeFunc) renamed them, no flag lost; the
\* next Visit has yielded a.c before a.b, the order of the old names.
C19_Witness ==
    /\ f.SortFlags
    /\ api.op = "Visit"
    /\ f.normalizeNameFunc = "wordSepNormalizeFunc"
    /\ Cardinality(DOMAIN f.formal) = Len(api.added)
    /\ Len(api.got) = 2
    /\ heap[api.got[1]].Name = <<"a", ".", "c">>
    /\ heap[api.got[2]].Name = N_aPb
    /\ Range(api.got) = Range(api.firstSets)

----------------------------------------------------------------------------
(* Further properties of one Parse *)

\* The step e parsed the long form of the flag at heap address id.
LongFormOf(e, id) ==
    /\ e.cl = <<>>
    /\ TokIsLong(arguments[e.pos])
    /\ TokLongName(arguments[e.pos]) = heap[id].Name

\* The step e decoded the rune of the flag at heap address id and set it.
ShortFormSet(e, id) ==
    /\ e.cl # <<>>
    /\ e.cl[1] = heap[id].Shorthand
    /\ e.call # <<>>
    /\ e.call[1].name = heap[id].Name
    /\ e.err = ErrNil

\* C21: a shorthand-only flag is found by Lookup under its long name, but
\* Parse sets it by its rune only: no token --name or --name=value calls Set
\* for it, so none assigns its value or marks it changed.
C21_ShorthandOnly ==
    \A id \in 1..Len(heap) :
        heap[id].ShorthandOnly =>
            /\ Lookup(f, heap[id].Name) = id
            /\ \A k \in 1..Len(log) : LongFormOf(log[k], id) => log[k].call = <<>>
            /\ \A k \in 1..Len(log) :
                   (log[k].call # <<>> /\ log[k].call[1].name = heap[id].Name)
                       => log[k].cl # <<>> /\ log[k].cl[1] = heap[id].Shorthand
            /\ heap[id].Changed => \E k \in 1..Len(log) : ShortFormSet(log[k], id)
            /\ (~\E k \in 1..Len(log) : ShortFormSet(log[k], id))
                   => heap[id].Value.v = <<>>

\* C21 witness: "--value=5 -l a" has ended without error; the long form
\* called no Set, the rune set the flag to "a".
C21_Witness ==
    /\ Done
    /\ arguments = <<T_value_eq_5, S_l, T_a>>
    /\ err = ErrNil
    /\ Len(log) = 2
    /\ log[1].call = <<>>
    /\ log[2].call = Called(N_value, T_a)
    /\ FlagNamed(N_value).ShorthandOnly
    /\ FlagNamed(N_value).Value.v = T_a

\* C24: while UnknownFlags is false, GetUnknownFlags() stays empty and no
\* token is skipped: every token parsed as a long flag assigns a registered
\* flag, requests help or makes Parse fail, also in flag sets with
\* shorthand-only flags; a Parse that returns nil has recorded no unknown
\* flag and discarded no token after one.
C24_NothingSkipped ==
    ~f.UnknownFlags =>
        /\ f.unknownFlags = <<>>
        /\ \A k \in 1..Len(log) :
               (log[k].cl = <<>> /\ TokIsLong(arguments[log[k].pos]))
                   => \/ log[k].call # <<>>
                      \/ log[k].err # ErrNil

\* C24, what the code does: with UnknownFlags false and the shorthand-only
\* flag value, "--value a" has returned nil; --value is recorded as unknown
\* and the token a is gone.
C24_Witness ==
    /\ Done
    /\ ~f.UnknownFlags
    /\ arguments = <<T_value, T_a>>
    /\ err = ErrNil
    /\ f.unknownFlags = <<T_value>>
    /\ f.args = <<>>
    /\ ~FlagNamed(N_value).Changed

\* The step appends to the history a call of Set for the flag at heap
\* address id that failed on the value's text.
RejectedSet(id) ==
    /\ Len(log') = Len(log) + 1
    /\ log'[Len(log')].call # <<>>
    /\ log'[Len(log')].call[1].name = heap[id].Name
    /\ log'[Len(log')].err = ErrInvalidArgument

\* C25: a Set through Parse that fails on the text of the value leaves the
\* flag as it was: the stored value is the one before (an int flag keeps its
\* number, a list flag its elements), Changed is not turned on, and the flag
\* is not added to the flags that were set.
C25_RejectedSetKeeps ==
    [][\A id \in 1..Len(heap) :
           RejectedSet(id) =>
               /\ heap'[id].Value = heap[id].Value
               /\ heap'[id].Changed = heap[id].Changed
               /\ f'.actual = f.actual
               /\ f'.orderedActual = f.orderedActual]_vars

\* C25, what the code does: after "--num=5 --num=" the second Set failed and
\* the int flag holds 0, not 5.
C25_Witness ==
    /\ Done
    /\ arguments = <<T_num_eq_5, T_num_eq>>
    /\ err = ErrInvalidArgument
    /\ log[2].call = Called(N_num, <<>>)
    /\ log[2].err = ErrInvalidArgument
    /\ FlagNamed(N_num).Value.v = 0
    /\ FlagNamed(N_num).Changed

\* The step e took the token after its own: as the value of the flag it
\* set, which had no text in the token and no NoOptDefVal, or as the value
\* of the unknown flag it recorded.
TookNext(e) ==
    /\ e.err = ErrNil
    /\ e.pos < NArguments
    /\ arguments[e.pos] # T_dashdash
    /\ IF e.cl = <<>> THEN ~TokHasEq(arguments[e.pos]) ELSE Len(e.cl) = 1
    /\ IF e.call # <<>>
       THEN FlagNamed(e.call[1].name).NoOptDefVal = <<>>
       ELSE IF Len(arguments[e.pos + 1]) = 0 THEN TRUE
            ELSE arguments[e.pos + 1][1] # "-"

\* Some step of the history parsed the token at index i as a flag token.
ParsedAt(i) ==
    /\ ~IsPositional(arguments[i])
    /\ \E k \in 1..Len(log) : log[k].pos = i

\* The ways Parse accounts for the token at index i: a flag token that set
\* a flag, a token recorded as unknown, the terminator, the value of the
\* token before it, a positional argument.
Accounts(i) ==
    {c \in {"flag", "unknown", "terminator", "value", "positional"} :
        CASE c = "flag" ->
                 /\ ParsedAt(i)
                 /\ \E k \in 1..Len(log) : log[k].pos = i /\ log[k].call # <<>>
          [] c = "unknown" ->
                 /\ ParsedAt(i)
                 /\ arguments[i] # T_dashdash
                 /\ \A k \in 1..Len(log) : log[k].pos = i => log[k].call = <<>>
          [] c = "terminator" -> ParsedAt(i) /\ arguments[i] = T_dashdash
          [] c = "value" ->
                 /\ i > 1
                 /\ ParsedAt(i - 1)
                 /\ \E k \in 1..Len(log) : log[k].pos = i - 1 /\ TookNext(log[k])
          [] c = "positional" -> i \in Range(argPos)}

\* C26: after a Parse of a fresh flag set that returned nil, every token of
\* the vector is accounted for once: as a flag token, the value taken by the
\* flag before it, the terminator, an unknown flag (or its discarded value),
\* or a positional argument; no token is met twice; and Args() is the
\* positional tokens in their order in the vector, no more than the vector
\* has.
C26_Accounted ==
    (Done /\ err = ErrNil) =>
        /\ \A i \in 1..NArguments : Cardinality(Accounts(i)) = 1
        /\ \A k \in 1..(Len(log) - 1) : log[k].pos <= log[k + 1].pos
        /\ \A i, j \in 1..Len(argPos) : i < j => argPos[i] < argPos[j]
        /\ f.args = [j \in 1..Len(argPos) |-> arguments[argPos[j]]]
        /\ Len(f.args) <= NArguments

\* C26 witness: in "-n 5 a" the token 5 is the value of -n and a the one
\* positional argument.
C26_Witness ==
    /\ Done
    /\ err = ErrNil
    /\ arguments = <<S_n, T_5, T_a>>
    /\ Accounts(1) = {"flag"}
    /\ Accounts(2) = {"value"}
    /\ Accounts(3) = {"positional"}
    /\ f.args = <<T_a>>

----------------------------------------------------------------------------
(* Values alone: String() and Set() of one Value *)

\* The largest magnitude of the numbers a Value starts from.
MaxInt == 12

\* strconv.FormatBool.
FormatBool(b) == IF b THEN <<"t", "r", "u", "e">> ELSE <<"f", "a", "l", "s", "e">>

RECURSIVE FormatUint(_)
\* strconv.FormatUint(n, 10): the decimal digits of n >= 0.
FormatUint(n) ==
    IF n < 10 THEN <<DigitChars[n + 1]>>
    ELSE Append(FormatUint(n \div 10), DigitChars[(n % 10) + 1])

\* Itoa with the bug of dropping the sign.
ItoaUnsigned(n) == IF n < 0 THEN FormatUint(-n) ELSE FormatUint(n)

\* strconv.Itoa.
Itoa(n) == IF n < 0 THEN <<"-">> \o FormatUint(-n) ELSE FormatUint(n)

RECURSIVE JoinComma(_)
\* strings.Join(ss, ",").
JoinComma(ss) ==
    IF ss = <<>> THEN <<>>
    ELSE IF Len(ss) = 1 THEN ss[1]
    ELSE (ss[1] \o <<",">>) \o JoinComma(Tail(ss))

\* The text s between "[" and "]".
Bracketed(s) == (<<"[">> \o s) \o <<"]">>

\* intSliceValue.String.
intSliceValueString(val) ==
    Bracketed(JoinComma([i \in 1..Len(val.v) |-> Itoa(val.v[i])]))

RECURSIVE DoubledQuotes(_)
\* The text s with every quote doubled.
DoubledQuotes(s) ==
    IF s = <<>> THEN s
    ELSE IF s[1] = "\"" THEN <<"\"", "\"">> \o DoubledQuotes(Tail(s))
    ELSE <<s[1]>> \o DoubledQuotes(Tail(s))

\* One field as csv.Writer writes it: in quotes when it holds a comma or a
\* quote.  The texts of the model hold no space and no line end.
csvField(s) ==
    IF \E i \in 1..Len(s) : s[i] \in {",", "\""}
    THEN (<<"\"">> \o DoubledQuotes(s)) \o <<"\"">>
    ELSE s

\* writeAsCSV: the fields as one CSV record, without the line end.
writeAsCSV(vals) == JoinComma([i \in 1..Len(vals) |-> csvField(vals[i])])

\* stringArrayValue.String.
stringArrayValueString(val) == Bracketed(writeAsCSV(val.v))

\* stringToStringValue.String: the records key=value in the order the range
\* over the map yields them, which Go leaves open.
stringToStringValueStrings(val) ==
    {Bracketed(writeAsCSV([i \in 1..Len(o) |-> (o[i] \o <<"=">>) \o val.v[o[i]]])) :
        o \in Orders(DOMAIN val.v)}

\* Value.String, dispatched on the dynamic type: the texts it can return.
ValueStrings(val) ==
    CASE val.type = "bool" -> {FormatBool(val.v)}
      [] val.type = "int" -> {Itoa(val.v)}
      [] val.type = "count" -> {Itoa(val.v)}
      [] val.type = "string" -> {val.v}
      [] val.type = "intSlice" -> {intSliceValueString(val)}
      [] val.type = "stringArray" -> {stringArrayValueString(val)}
      [] val.type = "stringToString" -> stringToStringValueStrings(val)

\* The types of the Values of the model.
ValueTypes == {"bool", "int", "count", "string", "intSlice", "stringArray",
               "stringToString"}

\* The Values of a type a flag of the model can be made with.
NewValues(type) ==
    CASE type = "bool" -> {[BoolDef(N_verb, "v").Value EXCEPT !.v = b] : b \in BOOLEAN}
      [] type = "int" ->
             {[IntDef(N_num, "n").Value EXCEPT !.v = n] : n \in (-MaxInt)..MaxInt}
      [] type = "count" ->
             {[CountDef(N_cnt, "c").Value EXCEPT !.v = n] : n \in (-MaxInt)..MaxInt}
      [] type = "string" ->
             {[StringDef(N_str, "s").Value EXCEPT !.v = s] :
                 s \in {<<>>, <<"a">>, <<"[", "a", "]">>, <<"+", "1">>}}
      [] type = "intSlice" ->
             {IntSliceDef(N_is, "i", d).Value : d \in {<<>>, <<7>>, <<1, -2>>}}
      [] type = "stringArray" ->
             {StringArrayDef(N_sa, "a", d).Value :
                 d \in {<<>>, << <<"d">> >>, << <<"a", ",", "b">>, <<"c">> >>}}
      [] type = "stringToString" ->
             {StringToStringDef(N_map, "m", d).Value :
                 d \in {[k \in {} |-> <<>>], DefaultMap}}

\* The texts given to Set.
ValueTexts ==
    {<<>>, <<"1">>, <<"T">>, <<"-", "5">>, <<"0", "x", "1", "f">>, <<"0", "1", "0">>,
     <<"+", "1">>, <<"x">>, <<"1", ",", "2">>, <<"a", "=", "1">>,
     <<"a", "=", "1", ",", "b", "=", "2">>, <<"[", "1", "]">>}

\* The error a Value's Set returns for the result r.
ValueErr(r) == IF r.ok THEN ErrNil ELSE ErrInvalidArgument

\* The flag at heap address 1 with the Value val.
Holding(val) == <<[Name |-> <<>>, Shorthand |-> NoShorthand, ShorthandOnly |-> FALSE,
                   NoOptDefVal |-> <<>>, Changed |-> FALSE, Value |-> val]>>

\* The Value under study.
TheValue == heap[1].Value

\* value.Set(t) for a text t.
ValueSetCall ==
    /\ api.n < MaxCalls
    /\ \E t \in ValueTexts :
        \E r \in {ValueSet(TheValue, t)} :
           /\ heap' = Holding(r.val)
           /\ api' = [api EXCEPT !.n = @ + 1, !.op = "Set", !.value = t,
                                 !.err = ValueErr(r)]
    /\ UNCHANGED <<f, arguments, pc, rest, shorthands, err, outcome, log, argPos, donor>>

\* value.Set(value.String()).
ValueSetStringCall ==
    /\ api.n < MaxCalls
    /\ \E t \in ValueStrings(TheValue) :
        \E r \in {ValueSet(TheValue, t)} :
           /\ heap' = Holding(r.val)
           /\ api' = [api EXCEPT !.n = @ + 1, !.op = "SetString", !.value = t,
                                 !.err = ValueErr(r)]
    /\ UNCHANGED <<f, arguments, pc, rest, shorthands, err, outcome, log, argPos, donor>>

ValueInit ==
    /\ \E type \in ValueTypes : \E val \in NewValues(type) : heap = Holding(val)
    /\ f = NewFlagSet("ContinueOnError")
    /\ arguments = <<>>
    /\ pc = "done"
    /\ rest = <<>>
    /\ shorthands = <<>>
    /\ err = ErrNil
    /\ outcome = "returned"
    /\ log = <<>>
    /\ argPos = <<>>
    /\ api = NoCalls
    /\ donor = NewFlagSet("ContinueOnError")

ValueNext == ValueSetCall \/ ValueSetStringCall

ValueSpec == ValueInit /\ [][ValueNext]_vars

----------------------------------------------------------------------------
(* Properties of the Values *)

\* The step is a call value.Set(value.String()).
SetStringStep == api'.n = api.n + 1 /\ api'.op = "SetString"

Scalar(val) == val.type \in {"bool", "int", "count", "string"}

\* A scalar Value takes its own String() back: Set succeeds and the value
\* is the one before, from every value it is made with and after every text
\* Set was given.
C22_ScalarRoundTrip ==
    Scalar(TheValue) => api'.err = ErrNil /\ heap'[1].Value = TheValue

----------------------------------------------------------------------------
(* Termination of one Parse *)

\* Parse is sequential code: whenever a step of it can be taken, one is
\* taken.
FairSpec == Spec /\ WF_vars(Next)

\* The sequence s is what is left of t after some tokens were taken off its
\* front.
IsSuffix(s, t) == Len(s) <= Len(t) /\ s = SubSeq(t, Len(t) - Len(s) + 1, Len(t))

\* An iteration of parseArgs' loop, a turn of parseShortArg's loop.
LoopIteration == pc = "scan"
ClusterTurn == pc = "short"

RECURSIVE ClusterCharacters(_)
\* The number of characters after the "-" in the tokens of args that have
\* the form of a shorthand cluster.
ClusterCharacters(args) ==
    IF args = <<>> THEN 0
    ELSE (IF ~IsPositional(Head(args)) /\ Head(args)[2] # "-"
          THEN Len(Head(args)) - 1 ELSE 0) + ClusterCharacters(Tail(args))

\* The loop iterations and cluster turns taken so far: one iteration for
\* each token met, one turn for each step inside a cluster.
StepsTaken ==
    Cardinality({log[k].pos : k \in 1..Len(log)})
        + Cardinality({k \in 1..Len(log) : log[k].cl # <<>>})

\* C23: Parse terminates on every vector and flag set, with and without the
\* tolerance of unknown flags: every iteration of the main loop takes at
\* least one token off the vector and no step puts one back, every turn in
\* a cluster shortens the cluster, and the iterations and turns together are
\* at most the number of tokens plus the characters of the clusters.
C23_Terminates ==
    /\ <>Done
    /\ [][/\ LoopIteration => Len(rest') < Len(rest)
          /\ pc # "idle" => IsSuffix(rest', rest)
          /\ ClusterTurn => Len(shorthands') < Len(shorthands)]_vars
    /\ [](StepsTaken <= NArguments + ClusterCharacters(arguments))

\* C23 witness: Parse has ended on "-vx -xyz -x" with unknown flags
\* tolerated, after 3 iterations and 4 turns.
C23_Witness ==
    /\ Done
    /\ f.UnknownFlags
    /\ arguments = <<S_vx, S_xyz, S_x>>
    /\ StepsTaken = 7
    /\ Len(log) = 4

----------------------------------------------------------------------------
(* Properties of repeated calls *)

\* A Parse call has returned nil.
ParseReturnedNil ==
    /\ api.op = "Parse"
    /\ pc = "done"
    /\ outcome = "returned"
    /\ err = ErrNil

\* The Parse that ran last met the terminator.
MetTerminator ==
    \E k \in 1..Len(log) : log[k].cl = <<>> /\ arguments[log[k].pos] = T_dashdash

\* C27: after every Parse call that returned, a second or later one and one
\* of an empty vector included, the positional state is that of this call:
\* Args() holds the positional arguments of the vector just parsed, and
\* ArgsLenAtDash() is -1 if the vector had no terminator, else between 0 and
\* NArg().
C27_PositionalState ==
    ParseReturnedNil =>
        /\ f.args = [j \in 1..Len(argPos) |-> arguments[argPos[j]]]
        /\ IF MetTerminator
           THEN 0 <= f.argsLenAtDash /\ f.argsLenAtDash <= Len(f.args)
           ELSE f.argsLenAtDash = -1

\* C27, what the code does: after Parse of "-x1 a --" and then of
\* "--a-c=1 --a_b=x", which has no terminator and no positional argument,
\* ArgsLenAtDash() is still 1.
C27_Witness ==
    /\ ParseReturnedNil
    /\ api.n = 2
    /\ arguments = <<T_aDc_eq_1, T_aUb_eq_x>>
    /\ ~MetTerminator
    /\ f.args = <<>>
    /\ f.argsLenAtDash = 1

----------------------------------------------------------------------------
(* Two flag sets that share flags *)

\* Set on the other flag set, for a flag AddFlagSet can place in both.
DonorSetCall ==
    /\ Callable
    /\ \E value \in RegValues : \E r \in {Set(donor, heap, N_aDc, value)} :
           /\ donor' = r.f
           /\ heap' = r.heap
           /\ api' = After("DonorSet", N_aDc, value, r.err, <<>>)
    /\ log' = <<>>
    /\ UNCHANGED <<f, arguments, pc, rest, shorthands, err, outcome, argPos>>

SharedNext ==
    \/ VarCall
    \/ AddFlagSetCall
    \/ SetCall
    \/ DonorSetCall
    \/ ParseCall
    \/ Parse
    \/ PositionalArg
    \/ Terminator
    \/ LongArg
    \/ ShortArg
    \/ SingleShortArg
    \/ ParseReturn

SharedSpec == RegInit /\ [][SharedNext]_vars

\* In the flag set fs the flags that are changed are the flags that were
\* set: Visit visits them and NFlag counts them.
ChangedAreSet(fs) ==
    /\ \A name \in DOMAIN fs.formal :
           heap[fs.formal[name]].Changed <=> fs.formal[name] \in Range(Visit(fs).flags)
    /\ NFlag(fs) = Cardinality({fs.formal[name] : name \in
                                   {n \in DOMAIN fs.formal : heap[fs.formal[n]].Changed}})

\* C28: in every flag set, a registered flag is Changed if and only if it is
\* among the flags of that set that were set, after any Var, AddFlagSet, Set
\* and Parse calls on the flag sets, also when AddFlagSet has put one Flag
\* into two flag sets and it is set through either.
C28_ChangedIsSet == \A fs \in {f, donor} : ChangedAreSet(fs)

\* C28, what the code does: the flag a-c was set through the other flag
\* set, added to this one by AddFlagSet and set again through this one; it
\* is Changed and this flag set counts no flag as set.
C28_Witness ==
    /\ Idle
    /\ api.op = "Set"
    /\ api.name = N_aDc
    /\ api.err = ErrNil
    /\ Lookup(f, N_aDc) = Lookup(donor, N_aDc)
    /\ heap[Lookup(f, N_aDc)].Changed
    /\ NFlag(f) = 0
    /\ NFlag(donor) = 1

\* The step is a call of Var or AddFlag that panicked.
AbortedRegistration == Step({"Var", "AddFlag"}) /\ api'.err = ErrPanic

\* C29: a registration that panics, for a taken name or a taken shorthand,
\* leaves the flag set as it was: formal, orderedFormal and shorthands are
\* the same, so that Lookup, ShorthandLookup, HasFlags and VisitAll answer
\* as before; a flag refused for its shorthand is not found by its name.
C29_AbortKeepsRegistry ==
    [][AbortedRegistration =>
          /\ f'.formal = f.formal
          /\ f'.orderedFormal = f.orderedFormal
          /\ f'.shorthands = f.shorthands
          /\ VisitAll(f').flags = VisitAll(f).flags
          /\ Lookup(f, api'.name) = 0 => Lookup(f', api'.name) = 0]_vars

\* C29, what the code does: Var of the flag d with the shorthand x, bound
\* to a_b, has panicked, and Lookup finds d.
C29_Witness ==
    /\ api.op = "Var"
    /\ api.err = ErrPanic
    /\ api.name = N_d
    /\ Lookup(f, N_d) # 0
    /\ Lookup(f, N_d) \in Range(VisitAll(f).flags)
    /\ ShorthandLookup(f, "x") = Lookup(f, N_aUb)
    /\ ~api.renamed

\* The flags VisitAll and Visit visit with SortFlags set to sorted.
VisitAllWith(sorted) == Range(VisitAll([f EXCEPT !.SortFlags = sorted]).flags)
VisitWith(sorted) == Range(Visit([f EXCEPT !.SortFlags = sorted]).flags)

\* C30: orderedFormal and formal describe the same flags after any Var,
\* AddFlag, AddFlagSet and SetNormalizeFunc calls, also with a function that
\* gives two registered names one key: VisitAll visits the same flags with
\* SortFlags true and false, Lookup(F.Name) is F for every flag F visited,
\* and Visit visits the same flags with SortFlags true and false.
C30_SameFlags ==
    Idle =>
        /\ VisitAllWith(TRUE) = VisitAllWith(FALSE)
        /\ \A id \in VisitAllWith(TRUE) \cup VisitAllWith(FALSE) :
               Lookup(f, heap[id].Name) = id
        /\ VisitWith(TRUE) = VisitWith(FALSE)

\* C30, what the code does: after SetNormalizeFunc gave a_b and a-c the key
\* a.b, VisitAll visits one flag with SortFlags true and two with false.
C30_Witness ==
    /\ Idle
    /\ api.op = "SetNormalizeFunc"
    /\ api.value = "wordSepNormalizeFunc"
    /\ Cardinality(VisitAllWith(TRUE)) = 1
    /\ Cardinality(VisitAllWith(FALSE)) = 2
    /\ \E id \in VisitAllWith(FALSE) : Lookup(f, heap[id].Name) # id

====
